---- MODULE Spec2Model ----
(***************************************************************************)
(* roitools: a video capture (RoiCap, and its GUI subclass RoiVideo) that  *)
(* notifies registered regions of interest (ROIs) on every frame read.     *)
(*                                                                         *)
(* One session is modelled.  capclass says which program runs it:          *)
(*   "RoiCap"   a script driving roitools.RoiCap directly (construct,      *)
(*              add_roi, delete_roi, next, roi.notified, roi.deaf = ...),  *)
(*   "RoiVideo" the planner GUI (roi_planner_gui.py), whose handlers       *)
(*              construct and register regions on a RoiVideo.              *)
(* Python objects live in the heap `regions` (a reference is an index);    *)
(* an attribute that may be absent holds <<>> when absent and <<v>> when   *)
(* set to v.                                                               *)
(***************************************************************************)
EXTENDS Integers, Sequences, FiniteSets, TLC

\* ---------------------------------------------------------------- bounds
\* regions constructed during the run
MaxNew == 2
\* frame shape in pixels
frame_width == 3
frame_height == 3
\* milliseconds per frame (pos_msec of a position)
MsecPerFrame == 40

\* ---------------------------------------------------- program constants
_max_rois == 100

None == "None"
NoAttr == <<>>
HasAttr(a) == a # <<>>
Val(a) == a[1]

Min(a, b) == IF a <= b THEN a ELSE b
Max(a, b) == IF a >= b THEN a ELSE b
Abs(a) == IF a >= 0 THEN a ELSE 0 - a

\* ------------------------------------------------------------- the video
\* the video files a session may open, and the decoded frame (a palette
\* index k, its pixels being Pixel(k, x, y)) a file holds at position p >= 1
Videos == {"drift"}
Frames == <<0, 1, 2>>
FrameAt(v, p) == Frames[p]
\* cv2.CAP_PROP_FRAME_COUNT
frame_count == Len(Frames)

\* files with a damaged frame: cv2 cannot decode the frame at position 2
Damaged == {"broken"}
Decodes(v, p) == ~(v \in Damaged /\ p = 2)

\* BGR value of pixel (x, y) of decoded frame k: blue follows k except in
\* column 0, green is flat, red is a fixed gradient
Pixel(k, x, y) ==
    [blue |-> IF x = 0 THEN 0 ELSE k, green |-> 1, red |-> x + y]

\* cv2 position properties after `p` frames have been read
PosMsec(p) == p * MsecPerFrame

\* ------------------------------------------------------------ BaseRoi
MeanKinds == {"MeanRectRoi", "MeanCircRoi"}
CircKinds == {"CircRoi", "DummyCircRoi", "MeanCircRoi"}

\* BaseRoi.__init__ (and the subclass constructors that forward to it):
\* the fresh object with the id it is given
BaseRoi__init__(id, kind, vertex1, vertex2, radius, delta_ig) ==
    [_id |-> id, kind |-> kind, deaf |-> FALSE, cap |-> None,
     vertex1 |-> vertex1, vertex2 |-> vertex2, radius |-> radius,
     delta_ig |-> delta_ig, collected |-> <<>>,
     start_pos_msec |-> NoAttr, start_pos_frames |-> NoAttr,
     end_pos_msec |-> NoAttr, end_pos_frames |-> NoAttr]

RectRoi__init__(id, kind, vertex1, vertex2, delta_ig) ==
    BaseRoi__init__(id, kind, vertex1, vertex2, 0, delta_ig)

CircRoi__init__(id, kind, center, radius, delta_ig) ==
    BaseRoi__init__(id, kind,
        <<center[1] - radius, center[2] - radius>>,
        <<center[1] + radius, center[2] + radius>>, radius, delta_ig)

\* slicing indices computed by BaseRoi.__init__ (ends already incremented)
st_x(roi) == Min(roi.vertex1[1], roi.vertex2[1])
end_x(roi) == Max(roi.vertex1[1], roi.vertex2[1]) + 1
st_y(roi) == Min(roi.vertex1[2], roi.vertex2[2])
end_y(roi) == Max(roi.vertex1[2], roi.vertex2[2]) + 1
center(roi) ==
    <<st_x(roi) + ((end_x(roi) - 1 - st_x(roi)) \div 2),
      st_y(roi) + ((end_y(roi) - 1 - st_y(roi)) \div 2)>>

roicolor(roi) == IF roi.deaf THEN "passive_color" ELSE "active_color"

\* ------------------------------------------------------------ geometry
\* indices a numpy slice [s:e] selects on an axis of length n, in order
\* (a negative bound counts from the end; bounds are clamped to the axis)
SliceBound(i, n) == IF i < 0 THEN Max(i + n, 0) ELSE Min(i, n)
SliceIdx(s, e, n) ==
    LET lo == SliceBound(s, n)
        hi == SliceBound(e, n)
    IN  [i \in 1..Max(hi - lo, 0) |-> lo + i - 1]

\* BaseRoi.get_rect: the frame coordinates of the sliced sub-array,
\* rows (ys) and columns (xs); the mask is not applied
get_rect(roi) ==
    [ys |-> SliceIdx(st_y(roi), end_y(roi), frame_height),
     xs |-> SliceIdx(st_x(roi), end_x(roi), frame_width)]

\* CircRoi.compute_mask: mask[y][x], 0-based, over the bounding box
compute_mask(roi) ==
    LET dx == end_x(roi) - st_x(roi)
        dy == end_y(roi) - st_y(roi)
        radius_sq == roi.radius * roi.radius
        macenter == <<dx \div 2, dy \div 2>>
    IN  [y \in 0..(dy - 1) |-> [x \in 0..(dx - 1) |->
            (x - macenter[1]) * (x - macenter[1])
          + (y - macenter[2]) * (y - macenter[2]) <= radius_sq]]

RectContainsEndsToo(roi, point) ==
    /\ st_x(roi) <= point[1] /\ point[1] <= end_x(roi)
    /\ st_y(roi) <= point[2] /\ point[2] <= end_y(roi)

\* RectRoi.contains((x, y))
RectRoi_contains(roi, point) ==
    /\ st_x(roi) <= point[1] /\ point[1] < end_x(roi)
    /\ st_y(roi) <= point[2] /\ point[2] < end_y(roi)

CircContainsInsideOnly(roi, point) ==
    LET dx == point[1] - center(roi)[1]
        dy == point[2] - center(roi)[2]
    IN  dx * dx + dy * dy < roi.radius * roi.radius

\* CircRoi.contains((x, y))
CircRoi_contains(roi, point) ==
    LET dx == point[1] - center(roi)[1]
        dy == point[2] - center(roi)[2]
    IN  dx * dx + dy * dy <= roi.radius * roi.radius

\* roi.contains(point) by class
contains(roi, point) ==
    IF roi.kind \in CircKinds
    THEN CircRoi_contains(roi, point)
    ELSE RectRoi_contains(roi, point)

\* ------------------------------------------------------------- sampling
RECURSIVE GCD(_, _)
GCD(a, b) == IF b = 0 THEN a ELSE GCD(b, a % b)

\* an exact mean num/den in lowest terms; den = 0 is nan (mean of nothing)
Rat(num, den) ==
    IF den = 0 THEN <<0, 0>>
    ELSE LET g == GCD(num, den) IN <<num \div g, den \div g>>

AbsDiffLessOrEqual(x, y, d) ==
    /\ x[2] > 0
    /\ y[2] > 0
    /\ Abs(x[1] * y[2] - y[1] * x[2]) <= d * x[2] * y[2]

\* abs(x - y) < d on exact means (any comparison with nan is false)
AbsDiffLess(x, y, d) ==
    /\ x[2] > 0
    /\ y[2] > 0
    /\ Abs(x[1] * y[2] - y[1] * x[2]) < d * x[2] * y[2]

RECURSIVE SumChannel(_, _, _)
SumChannel(k, ch, pts) ==
    IF pts = {} THEN 0
    ELSE LET p == CHOOSE q \in pts : TRUE
         IN  Pixel(k, p[1], p[2])[ch] + SumChannel(k, ch, pts \ {p})

\* frame coordinates that enter the mean: the sliced rectangle, cut down to
\* the mask's true cells when use_mask
Sampled(roi, use_mask) ==
    LET rect == get_rect(roi)
        mask == compute_mask(roi)
    IN  {<<rect.xs[j], rect.ys[i]>> : <<i, j>> \in
            {c \in (DOMAIN rect.ys) \X (DOMAIN rect.xs) :
                use_mask => mask[c[1] - 1][c[2] - 1]}}

Channels == <<"blue", "green", "red">>

\* the Color of per-channel means of frame k inside the region
MeanColor(roi, use_mask, k) ==
    LET pts == Sampled(roi, use_mask)
    IN  [ch \in {"blue", "green", "red"} |->
            Rat(SumChannel(k, ch, pts), Cardinality(pts))]

NeverIgnored(roi, col) == FALSE

IgnoredAny(roi, col) ==
    /\ roi.collected # <<>>
    /\ LET lastcol == roi.collected[Len(roi.collected)].color
       IN  \E i \in 1..3 :
              AbsDiffLess(col[Channels[i]], lastcol[Channels[i]], roi.delta_ig)

\* the test "col should be ignored" of _collect_mean_bgr
Ignored(roi, col) ==
    /\ roi.collected # <<>>
    /\ LET lastcol == roi.collected[Len(roi.collected)].color
       IN  \A i \in 1..3 :
              AbsDiffLess(col[Channels[i]], lastcol[Channels[i]], roi.delta_ig)

\* _collect_mean_bgr: <<>> for None, else <<MeanBgrRecord>>, of frame k
\* read at position p
_collect_mean_bgr(roi, use_mask, k, p) ==
    LET col == MeanColor(roi, use_mask, k)
    IN  IF Ignored(roi, col) THEN <<>>
        ELSE <<[pos_frames |-> p, pos_msec |-> PosMsec(p), color |-> col]>>

\* roi.collect() by class: BaseRoi.collect returns None
collect(roi, k, p) ==
    CASE roi.kind = "MeanCircRoi" -> _collect_mean_bgr(roi, TRUE, k, p)
      [] roi.kind = "MeanRectRoi" -> _collect_mean_bgr(roi, FALSE, k, p)
      [] OTHER -> <<>>

NotifiedKeepsLatestOnly(roi, k, p) ==
    IF roi.deaf THEN roi ELSE [roi EXCEPT !.collected = collect(roi, k, p)]

NotifiedThoughDeaf(roi, k, p) ==
    [roi EXCEPT !.collected = @ \o collect(roi, k, p)]

\* BaseRoi.notified: the region after one notification of frame k at
\* position p
notified(roi, k, p) ==
    IF roi.deaf THEN roi
    ELSE [roi EXCEPT !.collected = @ \o collect(roi, k, p)]


\* ------------------------------------------------------- frame values
\* a frame as read from the file: decoded frame k, nothing drawn on it, no
\* brightness offset applied to it
Original(k) == <<[img |-> k, drawn |-> {}, adjusted |-> <<>>]>>

\* Frame.adjust_brightness(offset), on a frame value: one more offset has
\* been added to the pixels of the frame
adjust_brightness(frame, offset) ==
    [frame EXCEPT !.adjusted = Append(@, offset)]

RedrawWithoutOffset(original, offset, calls) ==
    <<[original[1] EXCEPT !.drawn = {calls[i].roi : i \in 1..Len(calls)}]>>

\* RoiVideo.redraw: the frame shown is a copy of the unmodified frame, with
\* the brightness offset applied and the active regions drawn on it
redraw(original, offset, calls) ==
    <<[adjust_brightness(original[1], offset)
          EXCEPT !.drawn = {calls[i].roi : i \in 1..Len(calls)}]>>

\* ---------------------------------------------------------------- state
VARIABLES
    capclass,        \* class of the capture this session drives
    base,            \* number of regions registered before the run starts
    video,           \* the video file opened
    _next_id,        \* BaseRoi._next_id
    regions,         \* the heap of region objects, by reference
    rois,            \* cap.rois: id -> reference
    latest_frame,    \* cap.latest_frame: <<>> or <<[img, drawn]>>
    latest_frame_original,  \* RoiVideo.latest_frame_original: <<>> or a frame
    _brightness_offset,     \* RoiVideo._brightness_offset
    pos_frames,      \* cap.pos_frames: frames read so far
    _paused,         \* PLAYER._paused
    _backwards,      \* PLAYER._backwards
    after_pending,   \* the handles of the callbacks tk_root.after holds
    _after_handle,   \* PLAYER._after_handle (0: None)
    _rect,           \* TouchScreen._rect: <<>> (None) or the rectangle of
                     \* the selection in progress, <<[start, end]>>
    LOCK,            \* the global lock of the threaded planner: who holds it
    RUNNER,          \* the CapRunner thread: where it stands in run() (pc),
                     \* its flags hold and backwards, and the size of rois
                     \* when the iteration over it began (size)
    MAIN,            \* the main thread of the threaded planner: where it
                     \* stands (pc) and the locked callback it runs (cb)
    active_box,      \* ids of the lines of tk_active_roi_box, in order
    finished_box,    \* ids of the lines of tk_finished_roi_box, in order
    tk_log,          \* tags of the lines the last operation appended to tk_log
    events,          \* notified / draw calls of the last operation, in order
    op,              \* the last call into the capture ("-" when the last
                     \* operation was none) and the region it was given
    result,          \* how the last operation ended
    heard,           \* the regions whose notified() got past the deaf test
                     \* in the last tick
    job              \* the locals of a running examples.get_roidata: where it
                     \* stands (pc), roi_specs, its two queues, the files saved

capVars == <<rois, latest_frame, pos_frames>>
brightVars == <<latest_frame_original, _brightness_offset>>
playVars == <<_backwards, after_pending, _after_handle, _rect>>
threadVars == <<LOCK, RUNNER, MAIN>>
guiVars == <<_paused, active_box, finished_box, tk_log>>
vars == <<capclass, base, video, _next_id, regions, rois, latest_frame,
          latest_frame_original, _brightness_offset, pos_frames, _paused,
          _backwards, after_pending, _after_handle, _rect, LOCK, RUNNER, MAIN,
          active_box, finished_box, tk_log, events, op, result, heard, job>>

Refs == 1..Len(regions)
\* the regions this run constructed: the ones its operations are aimed at
Own == (base + 1)..Len(regions)
Registered == {rois[k] : k \in DOMAIN rois}

\* iteration order of the dict rois (ascending keys), as references
viewvalues(d) ==
    LET keys == SelectSeq([k \in 1..Max(_next_id, Len(regions)) |-> k],
                          LAMBDA k : k \in DOMAIN d)
    IN  [i \in 1..Len(keys) |-> d[keys[i]]]

\* events of calling notified() / draw() on each region of `order`
NotifyEvents(order) ==
    [i \in 1..Len(order) |-> [e |-> "notified", roi |-> order[i], color |-> "-"]]
DrawEvents(order, heap) ==
    [i \in 1..Len(order) |->
        [e |-> "draw", roi |-> order[i], color |-> roicolor(heap[order[i]])]]

\* the region a start-up registration left behind (a plain RectRoi)
Prefill(i, cls) ==
    LET roi == RectRoi__init__(i, "RectRoi", <<0, 0>>, <<1, 1>>, 0)
    IN  IF cls = "RoiVideo"
        THEN [roi EXCEPT !.cap = "cap", !.start_pos_frames = <<1>>,
                         !.start_pos_msec = <<PosMsec(1)>>]
        ELSE [roi EXCEPT !.cap = "cap"]

\* CapRunner._re_init, for a thread that was not started
NoRunner == [pc |-> "-", hold |-> TRUE, backwards |-> FALSE, size |-> 0]

\* no get_roidata call is running
NoJob ==
    [pc |-> "-", roi_specs |-> <<>>, insertion_order |-> <<>>,
     deletion_order |-> <<>>, saved |-> <<>>]

\* the session with n regions registered before anything else happened
StartOn(n, files) ==
    /\ capclass \in {"RoiCap", "RoiVideo"}
    /\ base = n
    /\ video \in files
    /\ _next_id = n + 1
    /\ regions = [i \in 1..n |-> Prefill(i, capclass)]
    /\ rois = [i \in 1..n |-> i]
    /\ IF capclass = "RoiCap"
       THEN /\ latest_frame = <<>>
            /\ pos_frames = 0
            /\ events = <<>>
       ELSE \* the planner has loaded the video: load_video read one frame
            /\ latest_frame = redraw(Original(FrameAt(video, 1)), 0,
                                     DrawEvents([i \in 1..n |-> i], regions))
            /\ pos_frames = 1
            /\ events = DrawEvents([i \in 1..n |-> i], regions)
    /\ latest_frame_original = IF capclass = "RoiCap" THEN <<>>
                               ELSE Original(FrameAt(video, 1))
    /\ _brightness_offset = 0
    /\ _paused = TRUE
    /\ _backwards = FALSE
    \* load_video ended with _schedule_next_frame(): one callback waits
    /\ after_pending = IF capclass = "RoiCap" THEN {} ELSE {1}
    /\ _after_handle = IF capclass = "RoiCap" THEN 0 ELSE 1
    /\ _rect = <<>>
    /\ LOCK = "free"
    /\ RUNNER = NoRunner
    /\ MAIN = [pc |-> "idle", cb |-> "-"]
    /\ active_box = [i \in 1..n |-> i]
    /\ finished_box = <<>>
    /\ tk_log = <<"loaded">>
    /\ op = [name |-> "-", roi |-> 0]
    /\ result = "ok"
    /\ heard = {}
    /\ job = NoJob

Start(n) == StartOn(n, Videos)

Init == Start(0)
\* a capture one registration short of its capacity, or at it
InitCap == \E n \in {_max_rois - 1, _max_rois} : Start(n)

\* ------------------------------------------------------ RoiCap (script)
\* constructor calls a script makes: class, arguments, delta_ig
ConstructArgs ==
    {[kind |-> "MeanRectRoi", a |-> <<0, 1>>, b |-> <<0, 0>>, r |-> 0, delta_ig |-> 0],
     [kind |-> "MeanCircRoi", a |-> <<1, 1>>, b |-> <<1, 1>>, r |-> 1, delta_ig |-> 1]}
PlainArgs ==
    {[kind |-> "RectRoi", a |-> <<0, 0>>, b |-> <<1, 1>>, r |-> 0, delta_ig |-> 0],
     [kind |-> "CircRoi", a |-> <<1, 1>>, b |-> <<1, 1>>, r |-> 1, delta_ig |-> 0]}

New(id, c) ==
    IF c.kind \in CircKinds
    THEN CircRoi__init__(id, c.kind, c.a, c.r, c.delta_ig)
    ELSE RectRoi__init__(id, c.kind, c.a, c.b, c.delta_ig)

\* BaseRoi._next_id after a constructor took `id`
IdNotAdvanced(id) == id
IdAfter(id) == id + 1

\* roi = RectRoi(...) / MeanRectRoi(...) / MeanCircRoi(...)
Construct(c) ==
    /\ capclass = "RoiCap"
    /\ Len(regions) < base + MaxNew
    /\ regions' = Append(regions, New(_next_id, c))
    /\ _next_id' = IdAfter(_next_id)
    /\ op' = [name |-> "-", roi |-> 0]
    /\ result' = "ok"
    /\ events' = <<>>
    /\ UNCHANGED <<playVars, brightVars, threadVars, capclass, base, video, job, capVars, guiVars, heard>>

\* the capacity test of RoiCap.add_roi
HasRoomWhatever(d) == TRUE
HasRoomOffByOne(d) == Cardinality(DOMAIN d) <= _max_rois
HasRoom(d) == Cardinality(DOMAIN d) < _max_rois

RegisteringUnderNextKey(d, heap, r) ==
    [k \in (DOMAIN d) \cup {Cardinality(DOMAIN d) + 1} |->
        IF k \in DOMAIN d THEN d[k] ELSE r]

\* RoiCap.add_roi on success: the mapping with the region under its id
Registering(d, heap, r) ==
    [k \in (DOMAIN d) \cup {heap[r]._id} |-> IF k = heap[r]._id THEN r ELSE d[k]]

\* RoiCap.add_roi: what cap.add_roi(heap[r]) raises ("" when it returns) and
\* the mapping and the heap it leaves
RoiCap_add_roi(d, heap, r) ==
    IF HasRoom(d)
    THEN [raised |-> "", rois |-> Registering(d, heap, r),
          regions |-> [heap EXCEPT ![r].cap = "cap"]]
    ELSE [raised |-> "ValueError", rois |-> d, regions |-> heap]

\* cap.add_roi(roi)
AddRoi(r) ==
    /\ capclass = "RoiCap"
    /\ r \in Own
    /\ op' = [name |-> "add_roi", roi |-> r]
    /\ events' = <<>>
    /\ LET out == RoiCap_add_roi(rois, regions, r)
       IN  /\ rois' = out.rois
           /\ regions' = out.regions
           /\ result' = IF out.raised = "" THEN "ok" ELSE out.raised
    /\ UNCHANGED <<playVars, brightVars, threadVars, capclass, base, video, job, _next_id, latest_frame, pos_frames,
                   guiVars, heard>>

DeleteRoiDropsAll(d, roi_id) == <<>>

\* RoiCap.delete_roi: the mapping after `del self.rois[roi_id]`
RoiCap_delete_roi(d, roi_id) == [k \in (DOMAIN d) \ {roi_id} |-> d[k]]

\* cap.delete_roi(roi._id)
DeleteRoi(r) ==
    /\ capclass = "RoiCap"
    /\ r \in Own
    /\ op' = [name |-> "delete_roi", roi |-> r]
    /\ events' = <<>>
    /\ IF regions[r]._id \in DOMAIN rois
       THEN /\ rois' = RoiCap_delete_roi(rois, regions[r]._id)
            /\ result' = "ok"
       ELSE /\ result' = "KeyError"
            /\ UNCHANGED rois
    /\ UNCHANGED <<playVars, brightVars, threadVars, capclass, base, video, job, _next_id, regions, latest_frame,
                   pos_frames, guiVars, heard>>

\* roi.deaf = not roi.deaf
SetDeaf(r) ==
    /\ capclass = "RoiCap"
    /\ r \in Own
    /\ regions' = [regions EXCEPT ![r].deaf = ~@]
    /\ op' = [name |-> "-", roi |-> 0]
    /\ result' = "ok"
    /\ events' = <<>>
    /\ UNCHANGED <<playVars, brightVars, threadVars, capclass, base, video, job, _next_id, capVars, guiVars, heard>>

\* RoiCap._notify_rois as the calls it makes, in order
DrawThenNotify(order, heap) == DrawEvents(order, heap) \o NotifyEvents(order)
_notify_rois(order, heap) == NotifyEvents(order) \o DrawEvents(order, heap)

\* the regions RoiCap.next notifies: all values of the mapping
NotifiesNone(d) == {}
Notifies(d) == {d[k] : k \in DOMAIN d}

\* PyCap.next: the capture has a frame left to read at position p
HasNext(p) == p < frame_count

\* PyCap.next: `success` of self._cv2cap.read() at position p of file v
Read(v, p) == HasNext(p) /\ Decodes(v, p + 1)

\* RoiCap.next when the read succeeds: the frame is stored, every region of
\* the mapping is notified, then every region is drawn
Advance(v, p, d, heap) ==
    LET k == FrameAt(v, p + 1)
        told == Notifies(d)
        calls == _notify_rois(viewvalues(d), heap)
    IN  [raised |-> "",
         pos_frames |-> p + 1,
         regions |-> [r \in DOMAIN heap |->
                        IF r \in told THEN notified(heap[r], k, p + 1)
                        ELSE heap[r]],
         latest_frame |-> <<[img |-> k, drawn |->
                        {calls[i].roi : i \in {j \in 1..Len(calls) :
                                                 calls[j].e = "draw"}}]>>,
         events |-> SelectSeq(calls,
                        LAMBDA c : c.e = "draw" \/ c.roi \in told),
         heard |-> {r \in told : ~heap[r].deaf}]

NextNotifiesAtEnd(v, p, d, heap, latest, hd) ==
    IF Read(v, p) THEN Advance(v, p, d, heap)
    ELSE [Advance(v, p - 1, d, heap) EXCEPT !.raised = "StopIteration"]

\* RoiCap.next: what next(cap) raises ("" when it returns a frame) and what
\* it leaves; PyCap.next raises before latest_frame is assigned
RoiCap_next(v, p, d, heap, latest, hd) ==
    IF Read(v, p) THEN Advance(v, p, d, heap)
    ELSE [raised |-> "StopIteration", pos_frames |-> p, regions |-> heap,
          latest_frame |-> latest, events |-> <<>>, heard |-> hd]

\* frame = next(cap) on a RoiCap
CapNext ==
    /\ capclass = "RoiCap"
    /\ op' = [name |-> "next", roi |-> 0]
    /\ LET out == RoiCap_next(video, pos_frames, rois, regions, latest_frame,
                              heard)
       IN  /\ pos_frames' = out.pos_frames
           /\ regions' = out.regions
           /\ latest_frame' = out.latest_frame
           /\ events' = out.events
           /\ heard' = out.heard
           /\ result' = IF out.raised = "" THEN "ok" ELSE out.raised
    /\ UNCHANGED <<playVars, brightVars, threadVars, capclass, base, video, job, _next_id, rois, guiVars>>

\* ---------------------------------------------------- RoiVideo (planner)
DrawsFinishedToo(order, heap) == DrawEvents(order, heap)

\* RoiVideo.draw_active_rois: the draw() calls, regions without end_pos_frames
draw_active_rois(order, heap) ==
    DrawEvents(SelectSeq(order, LAMBDA r : ~HasAttr(heap[r].end_pos_frames)), heap)

NextOfParent(v, p, d, heap, latest, hd, original, offset) ==
    [RoiCap_next(v, p, d, heap, latest, hd) EXCEPT
        !.latest_frame = IF @ = <<>> THEN @
                         ELSE <<[img |-> @[1].img, drawn |-> @[1].drawn,
                                 adjusted |-> <<>>]>>]
    @@ [latest_frame_original |-> original]

\* RoiVideo.next: what it raises ("" when it returns a frame) and what it
\* leaves: the frame read is redrawn with the active regions, no region is
\* notified
RoiVideo_next(v, p, d, heap, latest, hd, original, offset) ==
    IF Read(v, p)
    THEN LET calls == draw_active_rois(viewvalues(d), heap)
             read == Original(FrameAt(v, p + 1))
         IN  [raised |-> "", pos_frames |-> p + 1, regions |-> heap,
              latest_frame |-> redraw(read, offset, calls),
              latest_frame_original |-> read,
              events |-> calls, heard |-> hd]
    ELSE [raised |-> "StopIteration", pos_frames |-> p, regions |-> heap,
          latest_frame |-> latest, latest_frame_original |-> original,
          events |-> <<>>, heard |-> hd]

\* contents of the region parameter fields and the click position of a
\* right click: an entry holds <<>> (empty) or <<n>>
RClicks ==
    {[rtype |-> "rectangular", x |-> 1, y |-> 1, width |-> <<1>>, height |-> <<1>>, radius |-> <<>>],
     [rtype |-> "rectangular", x |-> 1, y |-> 1, width |-> <<>>, height |-> <<1>>, radius |-> <<>>],
     [rtype |-> "circular", x |-> 1, y |-> 1, width |-> <<>>, height |-> <<>>, radius |-> <<1>>],
     [rtype |-> "circular", x |-> 1, y |-> 1, width |-> <<>>, height |-> <<>>, radius |-> <<2>>]}

\* construct_roi_from_params raises ValueError (before constructing)
ParamsRejected(c) ==
    IF c.rtype = "rectangular"
    THEN c.width = <<>> \/ c.height = <<>>
    ELSE \/ c.radius = <<>>
         \/ c.x - Val(c.radius) < 0
         \/ c.y - Val(c.radius) < 0
         \/ c.x + Val(c.radius) >= frame_width
         \/ c.y + Val(c.radius) >= frame_height

\* construct_roi_from_params: the region built around (x, y)
construct_roi_from_params(id, c) ==
    IF c.rtype = "rectangular"
    THEN RectRoi__init__(id, "RectRoi",
            <<c.x - (Val(c.width) \div 2), c.y - (Val(c.height) \div 2)>>,
            <<c.x + ((Val(c.width) + 1) \div 2),
              c.y + ((Val(c.height) + 1) \div 2)>>, 0)
    ELSE CircRoi__init__(id, "DummyCircRoi", <<c.x, c.y>>, Val(c.radius), 0)

\* BaseRoi._next_id after _add_roi_helper caught the capacity error
IdKeptAfterRejection(id) == id
IdAfterRejection(id) == id - 1

StartedWithoutMsec(roi, p) == [roi EXCEPT !.start_pos_frames = <<p>>]

\* the starting timestamps RoiVideo.add_roi gives a region at position p
Started(roi, p) ==
    [roi EXCEPT !.start_pos_msec = <<PosMsec(p)>>, !.start_pos_frames = <<p>>]

StartedBeforeRegistered(d, heap, r, p) ==
    RoiCap_add_roi(d, [heap EXCEPT ![r] = Started(@, p)], r)

\* RoiVideo.add_roi: the parent's add_roi, then the timestamps unless the
\* parent raised
RoiVideo_add_roi(d, heap, r, p) ==
    LET out == RoiCap_add_roi(d, heap, r)
    IN  IF out.raised # "" THEN out
        ELSE [out EXCEPT !.regions[r] = Started(@, p)]

\* TouchScreen._rclick_add_roi, with _add_roi_helper
rclick_add_roi(c) ==
    /\ capclass = "RoiVideo"
    /\ Len(regions) < base + MaxNew
    /\ IF ParamsRejected(c)
       THEN /\ tk_log' = <<"error">>
            /\ result' = "ValueError"
            /\ op' = [name |-> "rclick", roi |-> 0]
            /\ UNCHANGED <<_next_id, regions, rois, latest_frame, active_box,
                           events>>
       ELSE LET r == Len(regions) + 1
                heap == Append(regions, construct_roi_from_params(_next_id, c))
                out == RoiVideo_add_roi(rois, heap, r, pos_frames)
            IN  /\ op' = [name |-> "add_roi", roi |-> r]
                /\ IF out.raised = ""
                   THEN LET calls == draw_active_rois(viewvalues(out.rois),
                                                     out.regions)
                        IN  /\ rois' = out.rois
                            /\ regions' = out.regions
                            /\ _next_id' = IdAfter(_next_id)
                            /\ latest_frame' = redraw(latest_frame_original,
                                            _brightness_offset, calls)
                            /\ events' = calls
                            /\ active_box' = Append(active_box, heap[r]._id)
                            /\ tk_log' = <<"started">>
                            /\ result' = "ok"
                   ELSE /\ rois' = out.rois
                        /\ regions' = out.regions
                        /\ _next_id' = IdAfterRejection(IdAfter(_next_id))
                        /\ tk_log' = <<"error">>
                        /\ result' = out.raised
                        /\ events' = <<>>
                        /\ UNCHANGED <<latest_frame, active_box>>
    /\ UNCHANGED <<playVars, brightVars, threadVars, capclass, base, video, job, pos_frames, _paused,
                   finished_box, heard>>

\* VideoPlayer.play_forwards / pause
play_forwards ==
    /\ capclass = "RoiVideo"
    /\ _backwards' = FALSE
    /\ _paused' = FALSE
    /\ op' = [name |-> "-", roi |-> 0]
    /\ result' = "ok"
    /\ tk_log' = <<>>
    /\ UNCHANGED <<after_pending, _after_handle, _rect, brightVars, threadVars, capclass,
                   base, video, job, _next_id, regions, capVars, active_box,
                   finished_box, events, heard>>

\* VideoPlayer.play_backwards
play_backwards ==
    /\ capclass = "RoiVideo"
    /\ _backwards' = TRUE
    /\ _paused' = FALSE
    /\ op' = [name |-> "-", roi |-> 0]
    /\ result' = "ok"
    /\ tk_log' = <<>>
    /\ UNCHANGED <<after_pending, _after_handle, _rect, brightVars, threadVars, capclass,
                   base, video, job, _next_id, regions, capVars, active_box,
                   finished_box, events, heard>>

pause ==
    /\ capclass = "RoiVideo"
    /\ _paused' = TRUE
    /\ op' = [name |-> "-", roi |-> 0]
    /\ result' = "ok"
    /\ tk_log' = <<>>
    /\ UNCHANGED <<playVars, brightVars, threadVars, capclass, base, video, job, _next_id, regions, capVars,
                   active_box, finished_box, events, heard>>

\* tk_root.after(delay, callback): the handle of the callback among the
\* pending ones. Tk numbers its handles on and on; here the lowest free
\* number is taken, which differs from every handle still pending
after(pending) ==
    CHOOSE h \in 1..(Cardinality(pending) + 1) : h \notin pending

CancelsNothing(pending, h) == pending

\* tk_root.after_cancel(h): the callbacks left pending (h may be None or
\* the handle of a callback that ran or was cancelled before)
after_cancel(pending, h) == pending \ {h}

PlaysOnAtTheStart(v, p, d, heap, latest, hd, original, offset, backwards) ==
    LET out == RoiVideo_next(v, IF backwards THEN Max(p - 2, 0) ELSE p, d,
                             heap, latest, hd, original, offset)
    IN  out @@ [_paused |-> out.raised # ""]

\* the part of VideoPlayer._schedule_next_frame that runs while playing:
\* playing backwards the position is taken back by two (clipping at zero),
\* then the next frame is read; the player pauses when there is none, and
\* when it plays backwards and stands at frame 1
playing(v, p, d, heap, latest, hd, original, offset, backwards) ==
    LET out == RoiVideo_next(v, IF backwards THEN Max(p - 2, 0) ELSE p, d,
                             heap, latest, hd, original, offset)
    IN  out @@
        [_paused |-> (out.raised # "") \/ (backwards /\ out.pos_frames = 1)]

\* VideoPlayer._schedule_next_frame, called while the callbacks `pending`
\* wait: without a video nothing is shown; while playing, the next frame is
\* read; while paused the frame at hand is shown again; in every case the
\* method schedules itself once more
_schedule_next_frame(pending) ==
    /\ capclass = "RoiVideo"
    /\ IF video = None \/ _paused
       THEN /\ op' = [name |-> "-", roi |-> 0]
            /\ result' = "ok"
            /\ UNCHANGED <<regions, latest_frame, latest_frame_original,
                           pos_frames, _paused, events, heard>>
       ELSE LET out == playing(video, pos_frames, rois, regions,
                               latest_frame, heard, latest_frame_original,
                               _brightness_offset, _backwards)
            IN  /\ op' = [name |-> "next", roi |-> 0]
                /\ pos_frames' = out.pos_frames
                /\ regions' = out.regions
                /\ latest_frame' = out.latest_frame
                /\ latest_frame_original' = out.latest_frame_original
                /\ events' = out.events
                /\ heard' = out.heard
                /\ result' = IF out.raised = "" THEN "ok" ELSE out.raised
                /\ _paused' = out._paused
    /\ after_pending' = pending \cup {after(pending)}
    /\ _after_handle' = after(pending)
    /\ tk_log' = <<>>
    /\ UNCHANGED <<_backwards, _rect, _brightness_offset, threadVars, capclass, base,
                   video, job, _next_id, rois, active_box, finished_box>>

\* the Tk main loop runs a callback that is due
mainloop ==
    \E h \in after_pending : _schedule_next_frame(after_pending \ {h})

\* where the left button goes down and where it is let go
PressPoints == {<<0, 0>>}
ReleasePoints == {<<1, 1>>, <<0, 2>>}

\* TouchScreen._lclick: the pending callback of the player is cancelled
\* and a selection rectangle is begun at the point of the event
_lclick(point) ==
    /\ capclass = "RoiVideo"
    /\ video # None
    /\ Len(regions) < base + MaxNew
    /\ after_pending' = after_cancel(after_pending, _after_handle)
    /\ _rect' = <<[start |-> point, end |-> point]>>
    /\ op' = [name |-> "-", roi |-> 0]
    /\ result' = "ok"
    /\ tk_log' = <<>>
    /\ UNCHANGED <<_backwards, _after_handle, brightVars, threadVars, capclass, base,
                   video, job, _next_id, regions, capVars, _paused,
                   active_box, finished_box, events, heard>>

\* TouchScreen._ldrag: the rectangle is drawn out to the point of the event
_ldrag(point) ==
    /\ capclass = "RoiVideo"
    /\ video # None
    /\ _rect # <<>>
    /\ _rect' = <<[_rect[1] EXCEPT !.end = point]>>
    /\ op' = [name |-> "-", roi |-> 0]
    /\ result' = "ok"
    /\ tk_log' = <<>>
    /\ UNCHANGED <<_backwards, after_pending, _after_handle, brightVars,
                   threadVars, capclass, base, video, job, _next_id, regions, capVars,
                   _paused, active_box, finished_box, events, heard>>

\* how many ids releases without a selection may use up in a session
MaxStray == 1

\* TouchScreen._lrelease_add_roi: a RectRoi between the point where the
\* selection began and the point of the event is added (_add_roi_helper),
\* the selection is dropped and the player is unfrozen with a call of
\* _schedule_next_frame. Without a selection the vertices are None and the
\* RectRoi constructor raises TypeError after it took an id
_lrelease_add_roi(point) ==
    /\ capclass = "RoiVideo"
    /\ video # None
    /\ Len(regions) < base + MaxNew
    /\ IF _rect = <<>>
       THEN /\ _next_id <= Len(regions) + MaxStray
            /\ _next_id' = IdAfter(_next_id)
            /\ result' = "TypeError"
            /\ op' = [name |-> "lrelease", roi |-> 0]
            /\ tk_log' = <<>>
            /\ UNCHANGED <<playVars, brightVars, regions, capVars, _paused,
                           active_box, events, heard>>
       ELSE LET r == Len(regions) + 1
                heap == Append(regions,
                               RectRoi__init__(_next_id, "RectRoi",
                                               _rect[1].start, point, 0))
                added == RoiVideo_add_roi(rois, heap, r, pos_frames)
                calls == draw_active_rois(viewvalues(added.rois),
                                          added.regions)
                shown == IF added.raised # "" THEN latest_frame
                         ELSE redraw(latest_frame_original,
                                     _brightness_offset, calls)
                out == playing(video, pos_frames, added.rois, added.regions,
                               shown, heard, latest_frame_original,
                               _brightness_offset, _backwards)
            IN  /\ rois' = added.rois
                /\ _next_id' = IF added.raised = "" THEN IdAfter(_next_id)
                                ELSE IdAfterRejection(IdAfter(_next_id))
                /\ active_box' = IF added.raised = ""
                                  THEN Append(active_box, heap[r]._id)
                                  ELSE active_box
                /\ tk_log' = IF added.raised = "" THEN <<"started">>
                              ELSE <<"error">>
                /\ _rect' = <<>>
                /\ IF _paused
                   THEN /\ op' = [name |-> "add_roi", roi |-> r]
                        /\ regions' = added.regions
                        /\ latest_frame' = shown
                        /\ events' = IF added.raised = "" THEN calls ELSE <<>>
                        /\ result' = IF added.raised = "" THEN "ok"
                                      ELSE added.raised
                        /\ UNCHANGED <<latest_frame_original, pos_frames,
                                       _paused, heard>>
                   ELSE /\ op' = [name |-> "next", roi |-> 0]
                        /\ regions' = out.regions
                        /\ latest_frame' = out.latest_frame
                        /\ latest_frame_original' = out.latest_frame_original
                        /\ pos_frames' = out.pos_frames
                        /\ events' = out.events
                        /\ heard' = out.heard
                        /\ result' = IF out.raised = "" THEN "ok"
                                      ELSE out.raised
                        /\ _paused' = out._paused
                /\ after_pending' = after_pending \cup {after(after_pending)}
                /\ _after_handle' = after(after_pending)
                /\ UNCHANGED <<_backwards, _brightness_offset>>
    /\ UNCHANGED <<threadVars, capclass, base, video, job, finished_box>>

\* VideoPlayer.unload_video, behind cb_eject_video: the pending callback is
\* cancelled, the capture released and the window destroyed with its canvas,
\* and the player is reinitialised; the listboxes are cleared
cb_eject_video(confirm, yes) ==
    /\ capclass = "RoiVideo"
    /\ video # None
    /\ op' = [name |-> "eject", roi |-> 0]
    /\ result' = "ok"
    /\ IF confirm /\ ~yes
       THEN /\ tk_log' = <<>>
            /\ UNCHANGED <<playVars, brightVars, video, _next_id, regions,
                           capVars, _paused, active_box, finished_box,
                           events, heard>>
       ELSE /\ active_box' = <<>>
            /\ finished_box' = <<>>
            /\ after_pending' = after_cancel(after_pending, _after_handle)
            /\ video' = None
            /\ regions' = <<>>
            /\ rois' = <<>>
            /\ latest_frame' = <<>>
            /\ latest_frame_original' = <<>>
            /\ _brightness_offset' = 0
            /\ pos_frames' = 0
            /\ _paused' = TRUE
            /\ _backwards' = FALSE
            /\ _after_handle' = 0
            /\ _rect' = <<>>
            /\ events' = <<>>
            /\ heard' = {}
            /\ tk_log' = <<"ejected">>
            /\ UNCHANGED _next_id
    /\ UNCHANGED <<threadVars, capclass, base, job>>

\* what the file dialog of cb_select_video may return: nothing, a file that
\* is no avi, an avi that cv2 cannot read a frame from, a video
NotAvi == {"notes"}
Unreadable == {"noise"}
Paths == {""} \cup NotAvi \cup Unreadable \cup Videos

\* cb_select_video: the video at hand is ejected without asking, then the
\* file chosen is loaded unless it is refused; load_video reads one frame
\* and ends with a call of _schedule_next_frame
cb_select_video(path, allow_all) ==
    /\ capclass = "RoiVideo"
    /\ path # ""
    /\ op' = [name |-> "select", roi |-> 0]
    /\ active_box' = <<>>
    /\ finished_box' = <<>>
    /\ regions' = <<>>
    /\ rois' = <<>>
    /\ _brightness_offset' = 0
    /\ _paused' = TRUE
    /\ _backwards' = FALSE
    /\ _rect' = <<>>
    /\ events' = <<>>
    /\ heard' = {}
    /\ \E ejected \in {IF video = None THEN after_pending
                        ELSE after_cancel(after_pending, _after_handle)} :
          IF (path \in NotAvi /\ ~allow_all) \/ path \notin Videos
          THEN /\ video' = None
               /\ after_pending' = ejected
               /\ _after_handle' = 0
               /\ latest_frame' = <<>>
               /\ latest_frame_original' = <<>>
               /\ pos_frames' = 0
               /\ result' = IF path \in NotAvi /\ ~allow_all THEN "ok"
                             ELSE "VideoCaptureError"
               /\ tk_log' = (IF video = None THEN <<>> ELSE <<"ejected">>)
                             \o <<"error">>
               /\ UNCHANGED _next_id
          ELSE /\ video' = path
               /\ after_pending' = ejected \cup {after(ejected)}
               /\ _after_handle' = after(ejected)
               /\ latest_frame' = redraw(Original(FrameAt(path, 1)), 0, <<>>)
               /\ latest_frame_original' = Original(FrameAt(path, 1))
               /\ pos_frames' = 1
               /\ _next_id' = 1
               /\ result' = "ok"
               /\ tk_log' = (IF video = None THEN <<>> ELSE <<"ejected">>)
                             \o <<"loaded">>
    /\ UNCHANGED <<threadVars, capclass, base, job>>

\* VideoPlayer.set_position(frame), as cb_bar_set_frame calls it: the
\* position is set to frame, decremented (clipping at zero), and one frame
\* is read
set_position(frame) ==
    /\ capclass = "RoiVideo"
    /\ IF frame_count > 1
       THEN LET out == RoiVideo_next(video, Max(frame - 1, 0), rois, regions,
                                     latest_frame, heard,
                                     latest_frame_original, _brightness_offset)
            IN  /\ op' = [name |-> "next", roi |-> 0]
                /\ pos_frames' = out.pos_frames
                /\ regions' = out.regions
                /\ latest_frame' = out.latest_frame
                /\ latest_frame_original' = out.latest_frame_original
                /\ events' = out.events
                /\ heard' = out.heard
                /\ result' = IF out.raised = "" THEN "ok" ELSE out.raised
       ELSE /\ op' = [name |-> "-", roi |-> 0]
            /\ result' = "ok"
            /\ UNCHANGED <<regions, latest_frame, latest_frame_original,
                           pos_frames, events, heard>>
    /\ tk_log' = <<>>
    /\ UNCHANGED <<playVars, _brightness_offset, threadVars, capclass, base, video, job,
                   _next_id, rois, _paused, active_box, finished_box>>

\* the step of the brightness buttons
brightness_increment == 10

ClipsAboveOnly(value, lo, hi) == Min(value, hi)

\* np.clip(value, lo, hi)
clip(value, lo, hi) == Max(lo, Min(value, hi))

\* RoiVideo.brightness_offset = value: the offset is clipped and the frame
\* at hand is redrawn from the unmodified frame
set_brightness_offset(value) ==
    LET calls == draw_active_rois(viewvalues(rois), regions)
    IN  /\ _brightness_offset' = clip(value, 0 - 255, 255)
        /\ latest_frame' = redraw(latest_frame_original, _brightness_offset',
                                  calls)
        /\ events' = calls
        /\ result' = "ok"
        /\ tk_log' = <<>>
        /\ UNCHANGED <<playVars, latest_frame_original, threadVars, capclass, base,
                       video, job, _next_id, regions, rois, pos_frames,
                       _paused, active_box, finished_box, heard>>

\* VideoPlayer.brightness_adjust(increment): the brightness up and down
\* buttons
brightness_adjust(increment) ==
    /\ capclass = "RoiVideo"
    /\ op' = [name |-> "brightness_adjust", roi |-> 0]
    /\ set_brightness_offset(_brightness_offset + increment)

\* VideoPlayer.brightness_reset
brightness_reset ==
    /\ capclass = "RoiVideo"
    /\ op' = [name |-> "brightness_reset", roi |-> 0]
    /\ set_brightness_offset(0)

\* ------------------------------------------------ planner: region lists
\* listbox.curselection(): the line indexes a user may have selected, taken
\* among the lines of the regions this run constructed and of the MaxNew
\* regions registered last before it
Selections(box) == SUBSET {i \in DOMAIN box : box[i] > base - MaxNew}

\* the classes of capture the two planners drive: del_rois and
\* cb_finish_rois of the threaded planner are the code of the planner's,
\* on RUNNER.cap instead of PLAYER.video
Planners == {"RoiVideo", "GuiRoiCap"}

\* the selection a callback works on: with no line selected and the
\* "... all?" dialog answered yes, every line is selected
Chosen(box, sel, yes) == IF sel = {} /\ yes THEN DOMAIN box ELSE sel

\* the selections a callback may end up working on
Choices(box) ==
    {Chosen(box, sel, yes) : sel \in Selections(box), yes \in BOOLEAN}

\* selected_ids: the ids the selected lines start with, in line order
selected_ids(box, sel) ==
    LET at == SelectSeq([i \in DOMAIN box |-> i], LAMBDA i : i \in sel)
    IN  [j \in DOMAIN at |-> box[at[j]]]

\* the lines left after listbox.delete on every selected line
Without(box, sel) ==
    LET at == SelectSeq([i \in DOMAIN box |-> i], LAMBDA i : i \notin sel)
    IN  [j \in DOMAIN at |-> box[at[j]]]

Ids(seq) == {seq[i] : i \in DOMAIN seq}

FinishedSwapsFramesOnly(roi, p, swap) ==
    LET done == [roi EXCEPT !.end_pos_msec = <<PosMsec(p)>>,
                            !.end_pos_frames = <<p>>]
    IN  IF swap /\ Val(done.end_pos_frames) < Val(done.start_pos_frames)
        THEN [done EXCEPT !.end_pos_frames = done.start_pos_frames,
                          !.start_pos_frames = done.end_pos_frames]
        ELSE done

\* cb_finish_rois on one region, the capture being at position p: ending
\* timestamps, and start and end exchanged if the option is set and the end
\* precedes the start
Finished(roi, p, swap) ==
    LET done == [roi EXCEPT !.end_pos_msec = <<PosMsec(p)>>,
                            !.end_pos_frames = <<p>>]
    IN  IF swap /\ Val(done.end_pos_frames) < Val(done.start_pos_frames)
        THEN [done EXCEPT !.end_pos_msec = done.start_pos_msec,
                          !.start_pos_msec = done.end_pos_msec,
                          !.end_pos_frames = done.start_pos_frames,
                          !.start_pos_frames = done.end_pos_frames]
        ELSE done

LinesKept(box, sel) == box

\* the active box after cb_finish_rois deleted the selected lines from it
StillActive(box, sel) == Without(box, sel)

\* cb_finish_rois, with the lines it works on (the selected ones, or all of
\* them after the dialog) and the swap option (tkvar_swap_times) it finds
cb_finish_rois(chosen, swap) ==
    /\ capclass \in Planners
    /\ \E ids \in {selected_ids(active_box, chosen)} :
           IF ids = <<>>
           THEN /\ op' = [name |-> "-", roi |-> 0]
                /\ result' = "ok"
                /\ tk_log' = <<>>
                /\ UNCHANGED <<regions, latest_frame, active_box,
                               finished_box, events>>
           ELSE LET heap == [r \in DOMAIN regions |->
                               IF \E i \in DOMAIN ids :
                                     ids[i] \in DOMAIN rois /\ rois[ids[i]] = r
                               THEN Finished(regions[r], pos_frames, swap)
                               ELSE regions[r]]
                    calls == draw_active_rois(viewvalues(rois), heap)
                IN  /\ active_box' = StillActive(active_box, chosen)
                    /\ regions' = heap
                    /\ finished_box' = finished_box \o ids
                    /\ tk_log' = <<"finished">>
                    /\ latest_frame' = redraw(latest_frame_original,
                                            _brightness_offset, calls)
                    /\ events' = calls
                    /\ op' = [name |-> IF swap THEN "finish, swap on"
                                        ELSE "finish",
                              roi |-> 0]
                    /\ result' = "ok"
    /\ UNCHANGED <<playVars, brightVars, threadVars, capclass, base, video, job, _next_id, rois, pos_frames,
                   _paused, heard>>

\* what is left of an object once nothing refers to it: the listboxes hold
\* lines of text, so a region deleted from the planner's mapping is freed
Freed == BaseRoi__init__(0, "freed", <<0, 0>>, <<0, 0>>, 0, 0)
Release(heap, d, ids) ==
    [r \in DOMAIN heap |->
        IF \E i \in DOMAIN ids : ids[i] \in DOMAIN d /\ d[ids[i]] = r
        THEN Freed ELSE heap[r]]

DeletesFromBoxOnly(d, ids) == d

\* del_rois: the mapping after `del PLAYER.video.rois[id_]` for each id
Deleted(d, ids) == [k \in (DOMAIN d) \ Ids(ids) |-> d[k]]

\* cb_del_active_rois: del_rois on the active box, then PLAYER.refresh()
cb_del_active_rois(chosen) ==
    /\ capclass \in Planners
    /\ \E ids \in {selected_ids(active_box, chosen)} :
       LET d == Deleted(rois, ids)
           heap == Release(regions, rois, ids)
           calls == draw_active_rois(viewvalues(d), heap)
       IN  /\ active_box' = Without(active_box, chosen)
           /\ rois' = d
           /\ regions' = heap
           /\ tk_log' = IF ids = <<>> THEN <<>> ELSE <<"deleted">>
           /\ latest_frame' = redraw(latest_frame_original,
                                            _brightness_offset, calls)
           /\ events' = calls
           /\ op' = [name |-> IF ids = <<>> THEN "-" ELSE "del_rois",
                     roi |-> 0]
           /\ result' = "ok"
    /\ UNCHANGED <<playVars, brightVars, threadVars, capclass, base, video, job, _next_id, pos_frames, _paused,
                   finished_box, heard>>

\* cb_del_finished_rois: del_rois on the finished box
cb_del_finished_rois(chosen) ==
    /\ capclass \in Planners
    /\ \E ids \in {selected_ids(finished_box, chosen)} :
           /\ finished_box' = Without(finished_box, chosen)
           /\ rois' = Deleted(rois, ids)
           /\ regions' = Release(regions, rois, ids)
           /\ tk_log' = IF ids = <<>> THEN <<>> ELSE <<"deleted">>
           /\ op' = [name |-> IF ids = <<>> THEN "-" ELSE "del_rois",
                     roi |-> 0]
           /\ result' = "ok"
    /\ UNCHANGED <<playVars, brightVars, threadVars, capclass, base, video, job, _next_id, latest_frame,
                   pos_frames, _paused, active_box, events, heard>>

DeletesThoughWriteFailed(written, del_exported) == del_exported

\* cb_export's try/except/else: del_rois runs in the else clause, with the
\* option tkvar_del_exported set
DeletesExported(written, del_exported) == written /\ del_exported

\* cb_export, with the lines selected, the answer to "Export all?" should
\* it be asked, whether the user named a file, whether writing it worked,
\* and the option tkvar_del_exported
cb_export(sel, yes, named, written, del_exported) ==
    /\ capclass = "RoiVideo"
    /\ op' = [name |-> IF del_exported THEN "export, delete on" ELSE "export",
              roi |-> 0]
    /\ LET asked == sel = {} /\ finished_box # <<>>
           chosen == Chosen(finished_box, sel, asked /\ yes)
           dialog == IF asked
                     THEN <<[e |-> IF yes THEN "asked, yes" ELSE "asked, no",
                             roi |-> 0, color |-> "-"]>>
                     ELSE <<>>
       IN  \E ids \in {selected_ids(finished_box, chosen)} :
           IF ids = <<>> \/ ~named
           THEN /\ tk_log' = <<>>
                /\ events' = dialog
                /\ UNCHANGED <<regions, rois, finished_box>>
           ELSE /\ events' = dialog \o
                      (IF written
                       THEN [i \in DOMAIN ids |->
                               [e |-> "exported",
                                roi |-> IF ids[i] \in DOMAIN rois
                                        THEN rois[ids[i]] ELSE 0,
                                color |-> "-"]]
                       ELSE <<[e |-> "EnvironmentError", roi |-> 0,
                               color |-> "-"]>>)
                /\ IF DeletesExported(written, del_exported)
                   THEN /\ finished_box' = Without(finished_box, chosen)
                        /\ rois' = Deleted(rois, ids)
                        /\ regions' = Release(regions, rois, ids)
                        /\ tk_log' = <<IF written THEN "exported" ELSE "error",
                                       "deleted">>
                   ELSE /\ tk_log' = <<IF written THEN "exported" ELSE "error">>
                        /\ UNCHANGED <<regions, rois, finished_box>>
    /\ result' = "ok"
    /\ UNCHANGED <<playVars, brightVars, threadVars, capclass, base, video, job, _next_id, latest_frame,
                   pos_frames, _paused, active_box, heard>>

\* ------------------------------------------------- examples.get_roidata
\* birth and death times (msec) a roi_specs entry may ask for; the last
\* death lies beyond the end of the video
Births == {0, PosMsec(2)}
Deaths == {PosMsec(2), PosMsec(frame_count + 1)}

\* the roi_specs lists a caller may pass: one entry for each region it
\* constructed, born no later than it dies
RoiSpecs ==
    {specs \in [Own -> [roi : Own, birth : Births, death : Deaths]] :
        \A r \in Own : specs[r].roi = r /\ specs[r].birth <= specs[r].death}

\* sorted(seq, key): stable, ascending in the field `key`
RECURSIVE sorted(_, _)
sorted(seq, key) ==
    IF seq = <<>> THEN <<>>
    ELSE LET least == CHOOSE i \in DOMAIN seq :
                         /\ \A j \in DOMAIN seq : seq[i][key] <= seq[j][key]
                         /\ \A j \in 1..(i - 1) : seq[j][key] # seq[i][key]
         IN  <<seq[least]>> \o
             sorted([j \in 1..(Len(seq) - 1) |->
                        IF j < least THEN seq[j] ELSE seq[j + 1]], key)

\* get_roidata up to the loop: the two queues are set up and a new RoiCap is
\* opened on the video
get_roidata(specs) ==
    /\ capclass = "RoiCap"
    /\ job.pc = "-"
    /\ Own # {}
    /\ LET roi_specs == [i \in 1..Cardinality(Own) |-> specs[base + i]]
           insertion_order == sorted(roi_specs, "birth")
       IN  job' = [pc |-> "for", roi_specs |-> roi_specs,
                   insertion_order |-> insertion_order,
                   deletion_order |-> sorted(insertion_order, "death"),
                   saved |-> <<>>]
    /\ rois' = <<>>
    /\ latest_frame' = <<>>
    /\ pos_frames' = 0
    /\ events' = <<>>
    /\ op' = [name |-> "-", roi |-> 0]
    /\ result' = "ok"
    /\ UNCHANGED <<playVars, brightVars, threadVars, capclass, base, video, _next_id, regions, guiVars, heard>>

\* `for frame in cap`: next(cap); the loop ends when it raises StopIteration
loop_next ==
    /\ job.pc = "for"
    /\ LET out == RoiCap_next(video, pos_frames, rois, regions, latest_frame,
                              heard)
       IN  /\ pos_frames' = out.pos_frames
           /\ regions' = out.regions
           /\ latest_frame' = out.latest_frame
           /\ events' = out.events
           /\ heard' = out.heard
           /\ result' = IF out.raised = "" THEN "ok" ELSE out.raised
           /\ job' = [job EXCEPT !.pc = IF out.raised = "" THEN "add"
                                        ELSE "tail"]
    /\ op' = [name |-> "next", roi |-> 0]
    /\ UNCHANGED <<playVars, brightVars, threadVars, capclass, base, video, _next_id, rois, guiVars>>

\* the heap after the `roi.notified()` that follows cap.add_roi(roi) in the
\* loop: the region samples cap.latest_frame as it is
ManuallyNotified(heap, r, latest, p) ==
    [heap EXCEPT ![r] = notified(@, latest[1].img, p)]

\* one round of the `while insertion_order` loop: the region due is
\* registered and notified by hand; without one the loop is left
loop_add ==
    /\ job.pc = "add"
    /\ IF /\ job.insertion_order # <<>>
          /\ PosMsec(pos_frames) >= Head(job.insertion_order).birth
       THEN LET r == Head(job.insertion_order).roi
                out == RoiCap_add_roi(rois, regions, r)
            IN  /\ job' = [job EXCEPT !.insertion_order = Tail(@),
                                      !.pc = IF out.raised = "" THEN "add"
                                             ELSE "done"]
                /\ rois' = out.rois
                /\ regions' = IF out.raised # "" THEN out.regions
                              ELSE ManuallyNotified(out.regions, r,
                                                    latest_frame, pos_frames)
                /\ op' = [name |-> "notified", roi |-> r]
                /\ events' = IF out.raised # "" THEN <<>> ELSE NotifyEvents(<<r>>)
                /\ result' = IF out.raised = "" THEN "ok" ELSE out.raised
       ELSE /\ job' = [job EXCEPT !.pc = "delete"]
            /\ op' = [name |-> "-", roi |-> 0]
            /\ result' = "ok"
            /\ UNCHANGED <<rois, regions, events>>
    /\ UNCHANGED <<playVars, brightVars, threadVars, capclass, base, video, _next_id, latest_frame, pos_frames,
                   guiVars, heard>>

\* a line of a text file: what it starts with (tag) and its fields;
\* Repr(x) is the text csv.writer writes for the float x
Line(tag, fields) == [tag |-> tag, fields |-> fields]
Repr(x) == <<"repr", x>>

\* BaseRoi.info: the KEY VALUE lines, the capture's only when registered
info(roi) ==
    <<Line("ROI_ID", <<roi._id>>), Line("ROI_TYPE", <<roi.kind>>),
      Line("ROI_DESCRIPTION", <<"N/A">>), Line("DATE", <<"today">>),
      Line("TIME", <<"now">>)>>
    \o (IF roi.cap # None
        THEN <<Line("CAP_FILE", <<"video">>), Line("CAP_TITLE", <<"title">>),
               Line("CAP_FPS", <<"fps">>)>>
        ELSE <<>>)

ColumnNames == <<"pos_frames", "pos_msec", "blue_avg", "green_avg", "red_avg">>

\* the csv row of one MeanBgrRecord
CsvRow(rec) ==
    Line("row", <<Repr(rec.pos_frames), Repr(rec.pos_msec),
                  Repr(rec.color.blue), Repr(rec.color.green),
                  Repr(rec.color.red)>>)

ToFileSentinelFirst(roi) ==
    info(roi)
    \o <<Line("", <<>>), Line("HEADER_END", <<>>), Line("columns", ColumnNames)>>
    \o [i \in DOMAIN roi.collected |-> CsvRow(roi.collected[i])]

\* _to_file_mean_bgr without a maskfile: the lines written to datafile
to_file(roi) ==
    info(roi)
    \o <<Line("", <<>>), Line("columns", ColumnNames), Line("HEADER_END", <<>>)>>
    \o [i \in DOMAIN roi.collected |-> CsvRow(roi.collected[i])]

SaveRoiWritesNothing(saved, heap, r) == saved

\* save_roi(roi, saveto): the file written holds the samples collected so far
save_roi(saved, heap, r) ==
    Append(saved, [roi |-> r, rows |-> Len(heap[r].collected),
                   file |-> to_file(heap[r])])

\* load_roi's default header_rows
header_rows == 11

\* float(field) of np.loadtxt
Float(field) == field[2]

\* load_roi: the outcomes of np.loadtxt(path, skiprows=skip, delimiter=',').
\* Skipping more lines than the file has ends in StopIteration or in an
\* empty array, by numpy's version; a line left that is no row of numbers
\* is a ValueError, an empty one is passed over
load_roi(file, skip) ==
    IF Len(file) < skip
    THEN {[raised |-> "StopIteration", table |-> <<>>],
          [raised |-> "", table |-> <<>>]}
    ELSE LET rest == SubSeq(file, skip + 1, Len(file))
             data == SelectSeq(rest, LAMBDA line : line.tag # "")
         IN  IF \E i \in DOMAIN data : data[i].tag # "row"
             THEN {[raised |-> "ValueError", table |-> <<>>]}
             ELSE {[raised |-> "", table |->
                      [i \in DOMAIN data |->
                          [j \in DOMAIN data[i].fields |->
                              Float(data[i].fields[j])]]]}

\* save_roi(roi, path) by a script, each region to a file of its own
SaveRoi(r) ==
    /\ job.pc = "-"
    /\ r \in Own
    /\ regions[r].kind \in {"MeanRectRoi", "MeanCircRoi"}
    /\ \A i \in DOMAIN job.saved : job.saved[i].roi # r
    /\ job' = [job EXCEPT !.saved = save_roi(@, regions, r)]
    /\ op' = [name |-> "save_roi", roi |-> r]
    /\ result' = "ok"
    /\ events' = <<>>
    /\ UNCHANGED <<playVars, brightVars, threadVars, capclass, base, video, _next_id, regions, capVars, guiVars,
                   heard>>

\* load_roi(path) on the i-th file saved
LoadRoi(i) ==
    /\ i \in DOMAIN job.saved
    /\ \E out \in load_roi(job.saved[i].file, header_rows) :
          /\ result' = IF out.raised = "" THEN "ok" ELSE out.raised
          /\ events' = <<[e |-> "loaded", roi |-> job.saved[i].roi,
                          table |-> out.table]>>
    /\ op' = [name |-> "load_roi", roi |-> job.saved[i].roi]
    /\ UNCHANGED <<playVars, brightVars, threadVars, capclass, base, video, job, _next_id, regions, capVars,
                   guiVars, heard>>

\* one round of the `while deletion_order` loop: the region due is saved
\* and deleted from the capture; without one the loop is left, and the
\* iteration with it when nothing is registered and nothing is to come
loop_delete ==
    /\ job.pc = "delete"
    /\ IF /\ job.deletion_order # <<>>
          /\ PosMsec(pos_frames) >= Head(job.deletion_order).death
       THEN LET r == Head(job.deletion_order).roi
                registered == regions[r]._id \in DOMAIN rois
            IN  /\ job' = [job EXCEPT !.deletion_order = Tail(@),
                                      !.saved = save_roi(@, regions, r),
                                      !.pc = IF registered THEN "delete"
                                             ELSE "done"]
                /\ rois' = IF registered
                           THEN RoiCap_delete_roi(rois, regions[r]._id)
                           ELSE rois
                /\ op' = [name |-> "delete_roi", roi |-> r]
                /\ result' = IF registered THEN "ok" ELSE "KeyError"
       ELSE /\ job' = [job EXCEPT !.pc =
                          IF DOMAIN rois = {} /\ job.insertion_order = <<>>
                          THEN "tail" ELSE "for"]
            /\ op' = [name |-> "-", roi |-> 0]
            /\ result' = "ok"
            /\ UNCHANGED rois
    /\ events' = <<>>
    /\ UNCHANGED <<playVars, brightVars, threadVars, capclass, base, video, _next_id, regions, latest_frame,
                   pos_frames, guiVars, heard>>

\* save_roi on every region of `order`, in turn
RECURSIVE save_rois(_, _, _)
save_rois(saved, heap, order) ==
    IF order = <<>> THEN saved
    ELSE save_rois(save_roi(saved, heap, Head(order)), heap, Tail(order))

\* cap.add_roi on the region of every entry of roi_specs, in turn
RECURSIVE add_rois(_, _)
add_rois(out, specs) ==
    IF specs = <<>> \/ out.raised # "" THEN out
    ELSE add_rois(RoiCap_add_roi(out.rois, out.regions, Head(specs).roi),
                  Tail(specs))

\* get_roidata after the loop: the regions still registered are saved, the
\* capture steps back one frame, every region of roi_specs is registered
\* again and one more frame is read for the screenshot
loop_tail ==
    /\ job.pc = "tail"
    /\ LET added == add_rois([raised |-> "", rois |-> rois,
                              regions |-> regions], job.roi_specs)
           out == RoiCap_next(video, pos_frames - 1, added.rois,
                              added.regions, latest_frame, heard)
       IN  /\ job' = [job EXCEPT !.pc = "done",
                                 !.saved = save_rois(@, regions,
                                                     viewvalues(rois))]
           /\ rois' = added.rois
           /\ IF added.raised # ""
              THEN /\ regions' = added.regions
                   /\ pos_frames' = pos_frames - 1
                   /\ result' = added.raised
                   /\ events' = <<>>
                   /\ UNCHANGED <<latest_frame, heard>>
              ELSE /\ regions' = out.regions
                   /\ pos_frames' = out.pos_frames
                   /\ latest_frame' = out.latest_frame
                   /\ events' = out.events
                   /\ heard' = out.heard
                   /\ result' = IF out.raised = "" THEN "ok" ELSE out.raised
    /\ op' = [name |-> "next", roi |-> 0]
    /\ UNCHANGED <<playVars, brightVars, threadVars, capclass, base, video, _next_id, guiVars>>

\* ----------------------------------------------- the threaded planner
\* the threaded planner after RUNNER.start(), with a video loaded: the
\* runner thread is about to enter its loop
InitThreaded ==
    /\ capclass = "GuiRoiCap"
    /\ base = 0
    /\ video \in Videos
    /\ _next_id = 1
    /\ regions = <<>>
    /\ rois = <<>>
    /\ latest_frame = redraw(Original(FrameAt(video, 1)), 0, <<>>)
    /\ latest_frame_original = Original(FrameAt(video, 1))
    /\ _brightness_offset = 0
    /\ pos_frames = 1
    /\ _paused = TRUE
    /\ _backwards = FALSE
    /\ after_pending = {}
    /\ _after_handle = 0
    /\ _rect = <<>>
    /\ LOCK = "free"
    /\ RUNNER = [pc |-> "acquire", hold |-> TRUE, backwards |-> FALSE,
                 size |-> 0]
    /\ MAIN = [pc |-> "idle", cb |-> "-"]
    /\ active_box = <<>>
    /\ finished_box = <<>>
    /\ tk_log = <<"loaded">>
    /\ events = <<>>
    /\ op = [name |-> "-", roi |-> 0]
    /\ result = "ok"
    /\ heard = {}
    /\ job = NoJob

\* what a step of a thread that calls nothing of the capture leaves alone
Quiet ==
    /\ op' = [name |-> "-", roi |-> 0]
    /\ result' = "ok"
    /\ tk_log' = <<>>
    /\ events' = <<>>
    /\ UNCHANGED <<playVars, capclass, base, job, _next_id, _paused, heard>>

\* CapRunner.run: LOCK.acquire()
run_acquire ==
    /\ capclass = "GuiRoiCap"
    /\ RUNNER.pc = "acquire"
    /\ LOCK = "free"
    /\ LOCK' = "runner"
    /\ RUNNER' = [RUNNER EXCEPT !.pc = "tick"]
    /\ Quiet
    /\ UNCHANGED <<MAIN, video, regions, rois, latest_frame, brightVars,
                   pos_frames, active_box, finished_box>>

\* CapRunner.run under the lock, up to the iteration over rois: without a
\* video the runner goes on to release the lock, holding it goes on to
\* show the frame at hand; playing it reads the next frame (GuiRoiCap.next
\* up to draw_active_rois) and holds when there is none
run_tick ==
    /\ capclass = "GuiRoiCap"
    /\ RUNNER.pc = "tick"
    /\ IF video = None \/ RUNNER.hold
       THEN /\ RUNNER' = [RUNNER EXCEPT
                             !.pc = IF video = None THEN "release"
                                    ELSE "show"]
            /\ UNCHANGED <<latest_frame, latest_frame_original, pos_frames>>
       ELSE LET from == IF RUNNER.backwards THEN Max(pos_frames - 2, 0)
                        ELSE pos_frames
            IN  IF Read(video, from)
                THEN /\ pos_frames' = from + 1
                     /\ latest_frame_original'
                          = Original(FrameAt(video, from + 1))
                     /\ latest_frame'
                          = redraw(Original(FrameAt(video, from + 1)),
                                   _brightness_offset, <<>>)
                     /\ RUNNER' = [RUNNER EXCEPT
                                      !.pc = "draw",
                                      !.size = Cardinality(DOMAIN rois)]
                ELSE /\ pos_frames' = from
                     /\ RUNNER' = [RUNNER EXCEPT !.pc = "show",
                                                 !.hold = TRUE]
                     /\ UNCHANGED <<latest_frame, latest_frame_original>>
    /\ Quiet
    /\ UNCHANGED <<LOCK, MAIN, video, regions, rois, _brightness_offset,
                   active_box, finished_box>>

\* `for roi in self.rois.viewvalues()` of draw_active_rois, begun when rois
\* had `size` entries: whether it raises RuntimeError (dictionary changed
\* size during iteration). It does when the size changed before the loop
\* was through, and does not when it changed after
draw_raises(size, d) ==
    IF Cardinality(DOMAIN d) = size THEN {FALSE} ELSE {TRUE, FALSE}

\* CapRunner.run: the rest of next(self.cap), the iteration over rois that
\* draws the active regions. An exception other than StopIteration ends
\* run(), and with it the thread, where it stands
run_draw ==
    /\ capclass = "GuiRoiCap"
    /\ RUNNER.pc = "draw"
    /\ \E raised \in draw_raises(RUNNER.size, rois) :
          IF raised
          THEN /\ RUNNER' = [RUNNER EXCEPT !.pc = "dead"]
               /\ result' = "RuntimeError"
               /\ events' = <<>>
               /\ UNCHANGED latest_frame
          ELSE LET calls == draw_active_rois(viewvalues(rois), regions)
               IN  /\ latest_frame' = redraw(latest_frame_original,
                                             _brightness_offset, calls)
                   /\ events' = calls
                   /\ result' = "ok"
                   /\ RUNNER' = [RUNNER EXCEPT
                                    !.pc = "show",
                                    !.hold = \/ RUNNER.hold
                                             \/ /\ RUNNER.backwards
                                                /\ pos_frames = 1]
    /\ op' = [name |-> "next", roi |-> 0]
    /\ tk_log' = <<>>
    /\ UNCHANGED <<playVars, brightVars, LOCK, MAIN, capclass, base, video,
                   job, _next_id, regions, rois, pos_frames, _paused,
                   active_box, finished_box, heard>>

\* CapRunner.run: self.cap.latest_frame.show()
run_show ==
    /\ capclass = "GuiRoiCap"
    /\ RUNNER.pc = "show"
    /\ RUNNER' = [RUNNER EXCEPT !.pc = "release"]
    /\ Quiet
    /\ UNCHANGED <<LOCK, MAIN, video, regions, rois, latest_frame,
                   brightVars, pos_frames, active_box, finished_box>>

\* CapRunner.run: LOCK.release()
run_release ==
    /\ capclass = "GuiRoiCap"
    /\ RUNNER.pc = "release"
    /\ LOCK' = "free"
    /\ RUNNER' = [RUNNER EXCEPT !.pc = "wait"]
    /\ Quiet
    /\ UNCHANGED <<MAIN, video, regions, rois, latest_frame, brightVars,
                   pos_frames, active_box, finished_box>>

\* CapRunner.run: wait_function(wait_msec) has returned
run_wait ==
    /\ capclass = "GuiRoiCap"
    /\ RUNNER.pc = "wait"
    /\ RUNNER' = [RUNNER EXCEPT !.pc = "acquire"]
    /\ Quiet
    /\ UNCHANGED <<LOCK, MAIN, video, regions, rois, latest_frame,
                   brightVars, pos_frames, active_box, finished_box>>

\* cb_videoclick with add_roi: a left click in the video window, run by
\* cv2.waitKey in the runner's thread; the region is registered, stamped
\* with the position and drawn on the frame at hand
cb_videoclick(c) ==
    /\ capclass = "GuiRoiCap"
    /\ RUNNER.pc = "wait"
    /\ video # None
    /\ Len(regions) < base + MaxNew
    /\ LET r == Len(regions) + 1
           heap == Append(regions, construct_roi_from_params(_next_id, c))
           out == RoiCap_add_roi(rois, heap, r)
       IN  /\ out.raised = ""
           /\ rois' = out.rois
           /\ regions' = [out.regions EXCEPT ![r] = Started(@, pos_frames)]
           /\ latest_frame' = <<[latest_frame[1] EXCEPT !.drawn = @ \cup {r}]>>
           /\ events' = DrawEvents(<<r>>, out.regions)
           /\ active_box' = Append(active_box, heap[r]._id)
           /\ op' = [name |-> "add_roi", roi |-> r]
    /\ _next_id' = IdAfter(_next_id)
    /\ result' = "ok"
    /\ tk_log' = <<"started">>
    /\ UNCHANGED <<playVars, brightVars, threadVars, capclass, base, video,
                   job, pos_frames, _paused, finished_box, heard>>

\* the callbacks of the main thread that are decorated with locked
LockedCallbacks ==
    {"cb_pause", "cb_play_forwards", "cb_play_backwards", "cb_eject_video"}

\* func_locked: a decorated callback is called and goes for the lock
\* (`with LOCK:`); the main thread runs one callback at a time
locked(cb) ==
    /\ capclass = "GuiRoiCap"
    /\ MAIN.pc = "idle"
    /\ video # None
    /\ MAIN' = [pc |-> "blocked", cb |-> cb]
    /\ Quiet
    /\ UNCHANGED <<LOCK, RUNNER, video, regions, rois, latest_frame,
                   brightVars, pos_frames, active_box, finished_box>>

\* func_locked: the lock is acquired
locked_acquire ==
    /\ capclass = "GuiRoiCap"
    /\ MAIN.pc = "blocked"
    /\ LOCK = "free"
    /\ LOCK' = "main"
    /\ MAIN' = [MAIN EXCEPT !.pc = "holding"]
    /\ Quiet
    /\ UNCHANGED <<RUNNER, video, regions, rois, latest_frame, brightVars,
                   pos_frames, active_box, finished_box>>

\* func_locked: the callback runs under the lock, which is released when
\* the with block is left
locked_func ==
    /\ capclass = "GuiRoiCap"
    /\ MAIN.pc = "holding"
    /\ LOCK' = "free"
    /\ MAIN' = [pc |-> "idle", cb |-> "-"]
    /\ RUNNER' = IF MAIN.cb = "cb_pause" THEN [RUNNER EXCEPT !.hold = TRUE]
                  ELSE IF MAIN.cb = "cb_play_forwards"
                  THEN [RUNNER EXCEPT !.hold = FALSE, !.backwards = FALSE]
                  ELSE IF MAIN.cb = "cb_play_backwards"
                  THEN [RUNNER EXCEPT !.hold = FALSE, !.backwards = TRUE]
                  ELSE [RUNNER EXCEPT !.hold = TRUE, !.backwards = FALSE]
    /\ IF MAIN.cb = "cb_eject_video" /\ video # None
       THEN /\ video' = None
            /\ regions' = <<>>
            /\ rois' = <<>>
            /\ latest_frame' = <<>>
            /\ latest_frame_original' = <<>>
            /\ pos_frames' = 0
            /\ active_box' = <<>>
            /\ finished_box' = <<>>
            /\ tk_log' = <<"ejected">>
       ELSE /\ tk_log' = <<>>
            /\ UNCHANGED <<video, regions, rois, latest_frame,
                           latest_frame_original, pos_frames, active_box,
                           finished_box>>
    /\ op' = [name |-> "-", roi |-> 0]
    /\ result' = "ok"
    /\ events' = <<>>
    /\ UNCHANGED <<playVars, _brightness_offset, capclass, base, job,
                   _next_id, _paused, heard>>

\* cb_select_video of the threaded planner, without a video at hand: the
\* file chosen is loaded by the main thread, outside the lock
threaded_cb_select_video(path) ==
    /\ capclass = "GuiRoiCap"
    /\ MAIN.pc = "idle"
    /\ video = None
    /\ path \in Videos
    /\ video' = path
    /\ latest_frame' = redraw(Original(FrameAt(path, 1)), 0, <<>>)
    /\ latest_frame_original' = Original(FrameAt(path, 1))
    /\ pos_frames' = 1
    /\ _next_id' = 1
    /\ op' = [name |-> "select", roi |-> 0]
    /\ result' = "ok"
    /\ tk_log' = <<"loaded">>
    /\ events' = <<>>
    /\ UNCHANGED <<playVars, threadVars, _brightness_offset, capclass, base,
                   job, regions, rois, _paused, active_box, finished_box,
                   heard>>

\* ------------------------------------------------------- specifications
Next ==
    \/ \E c \in ConstructArgs : Construct(c)
    \/ \E r \in Refs : AddRoi(r)
    \/ \E r \in Refs : SetDeaf(r)
    \/ CapNext
    \/ \E c \in RClicks : rclick_add_roi(c)
    \/ play_forwards
    \/ pause
    \/ mainloop

\* a script or the planner at work on a fresh capture
Spec == Init /\ [][Next]_vars

NextCap ==
    \/ \E c \in PlainArgs : Construct(c)
    \/ \E r \in Refs : AddRoi(r)
    \/ \E r \in Refs : DeleteRoi(r)
    \/ \E c \in RClicks : rclick_add_roi(c)

\* the same, on a capture filled up to its capacity
SpecCap == InitCap /\ [][NextCap]_vars

\* positions cb_bar_set_frame may ask for
BarFrames == 1..frame_count
\* the right click of a planning session: a rectangle of the size entered
PlanClicks == {c \in RClicks : c.rtype = "rectangular" /\ ~ParamsRejected(c)}

InitFull == InitCap /\ capclass = "RoiVideo"

NextFull ==
    \/ \E c \in PlanClicks : rclick_add_roi(c)
    \/ \E chosen \in Choices(active_box), swap \in BOOLEAN :
          cb_finish_rois(chosen, swap)

\* the planner on a video with as many regions registered as the capacity
\* allows, or one less: regions are added and finished
SpecFull == InitFull /\ [][NextFull]_vars

InitGui == Init /\ capclass = "RoiVideo"

NextGui ==
    \/ \E c \in PlanClicks : rclick_add_roi(c)
    \/ \E chosen \in Choices(active_box), swap \in BOOLEAN :
          cb_finish_rois(chosen, swap)
    \/ \E chosen \in Choices(active_box) : cb_del_active_rois(chosen)
    \/ \E chosen \in Choices(finished_box) : cb_del_finished_rois(chosen)
    \/ \E sel \in Selections(finished_box),
          named, written, del_exported \in BOOLEAN :
          \* nothing is written without a file name, nothing deleted
          \* without a file written; the lines are selected by hand, and
          \* which ones matters only when they are deleted
          /\ named \/ ~written
          /\ written \/ ~del_exported
          /\ sel # {} \/ finished_box = <<>>
          /\ del_exported \/ sel = DOMAIN finished_box
          /\ cb_export(sel, FALSE, named, written, del_exported)
    \/ \E frame \in BarFrames : set_position(frame)

\* the planner at work on a freshly loaded video: regions are added,
\* finished, exported and deleted while the user moves through the video
\* with the progress bar, every move reading a frame with next()
SpecGui == InitGui /\ [][NextGui]_vars

InitData == Init /\ capclass = "RoiCap"

NextData ==
    \/ \E c \in ConstructArgs : job.pc = "-" /\ Construct(c)
    \/ \E specs \in RoiSpecs : get_roidata(specs)
    \/ loop_next
    \/ loop_add
    \/ loop_delete
    \/ loop_tail

\* a script that constructs its regions and then calls get_roidata
SpecData == InitData /\ [][NextData]_vars

NextKeys ==
    \/ \E c \in PlainArgs : job.pc = "-" /\ Construct(c)
    \/ \E r \in Refs : job.pc = "-" /\ AddRoi(r)
    \/ \E r \in Refs : job.pc = "-" /\ DeleteRoi(r)
    \/ \E specs \in RoiSpecs : get_roidata(specs)
    \/ loop_next
    \/ loop_add
    \/ loop_delete
    \/ loop_tail

\* a script that registers and deletes the regions it constructed as it
\* likes and then calls get_roidata
SpecKeys == InitData /\ [][NextKeys]_vars

NextTouch ==
    \/ \E path \in Paths, allow_all \in BOOLEAN :
          cb_select_video(path, allow_all)
    \/ \E yes \in BOOLEAN : cb_eject_video(TRUE, yes)
    \/ \E point \in PressPoints : _lclick(point)
    \/ \E point \in ReleasePoints : _ldrag(point)
    \/ \E point \in ReleasePoints : _lrelease_add_roi(point)
    \/ \E c \in PlanClicks : video # None /\ rclick_add_roi(c)
    \/ video # None /\ play_forwards
    \/ mainloop

\* the planner with its timer: videos are loaded and ejected, regions are
\* selected with the left button or added with the right one while the
\* video plays or stands
SpecTouch == InitGui /\ [][NextTouch]_vars

NextLists ==
    \/ \E c \in PlanClicks : video # None /\ rclick_add_roi(c)
    \/ \E chosen \in Choices(active_box), swap \in BOOLEAN :
          video # None /\ cb_finish_rois(chosen, swap)
    \/ \E chosen \in Choices(active_box) :
          video # None /\ cb_del_active_rois(chosen)
    \/ \E chosen \in Choices(finished_box) :
          video # None /\ cb_del_finished_rois(chosen)
    \/ \E sel \in Selections(finished_box),
          named, written, del_exported \in BOOLEAN :
          /\ video # None
          /\ named \/ ~written
          /\ written \/ ~del_exported
          /\ sel # {} \/ finished_box = <<>>
          /\ del_exported \/ sel = DOMAIN finished_box
          /\ cb_export(sel, FALSE, named, written, del_exported)
    \/ \E yes \in BOOLEAN : cb_eject_video(TRUE, yes)
    \/ \E path \in Paths, allow_all \in BOOLEAN :
          cb_select_video(path, allow_all)

\* the planner and its two listboxes: regions are added, finished, deleted
\* and exported, and videos are ejected and loaded in between (without a
\* video the buttons of the lists are disabled)
SpecLists == InitGui /\ [][NextLists]_vars

NextPlay ==
    \/ \E c \in PlanClicks : _paused /\ rclick_add_roi(c)
    \/ \E frame \in BarFrames : _paused /\ set_position(frame)
    \/ _paused /\ play_forwards
    \/ _paused /\ play_backwards
    \/ mainloop

\* the planner left alone while it plays: the user adds regions, moves the
\* progress bar and starts playback in either direction only while the
\* player is paused
SpecPlay == InitGui /\ [][NextPlay]_vars

\* the same, with Tk running every callback scheduled with after()
FairPlay == SpecPlay /\ WF_vars(mainloop)

NextThreaded ==
    \/ run_acquire
    \/ run_tick
    \/ run_draw
    \/ run_show
    \/ run_release
    \/ run_wait
    \/ \E c \in PlanClicks : cb_videoclick(c)
    \/ \E cb \in LockedCallbacks : locked(cb)
    \/ locked_acquire
    \/ locked_func
    \/ \E path \in Videos : threaded_cb_select_video(path)
    \/ \E chosen \in Choices(active_box), swap \in BOOLEAN :
          /\ MAIN.pc = "idle" /\ video # None /\ chosen # {}
          /\ cb_finish_rois(chosen, swap)
    \/ \E chosen \in Choices(active_box) :
          /\ MAIN.pc = "idle" /\ video # None /\ chosen # {}
          /\ cb_del_active_rois(chosen)
    \/ \E chosen \in Choices(finished_box) :
          /\ MAIN.pc = "idle" /\ video # None /\ chosen # {}
          /\ cb_del_finished_rois(chosen)

\* the threaded planner: the runner thread loops while the main thread
\* runs the callbacks of the buttons, one at a time
SpecThreaded == InitThreaded /\ [][NextThreaded]_vars

\* the same with a fair scheduler: a thread that can take a step takes it,
\* and a thread that waits for the lock gets it if it is free again and
\* again
FairThreaded ==
    /\ SpecThreaded
    /\ WF_vars(run_tick) /\ WF_vars(run_draw) /\ WF_vars(run_show)
    /\ WF_vars(run_release) /\ WF_vars(run_wait)
    /\ SF_vars(run_acquire)
    /\ SF_vars(locked_acquire)
    /\ WF_vars(locked_func)

InitRead == StartOn(0, Videos \cup Damaged) /\ capclass = "RoiCap"

NextRead ==
    \/ \E c \in ConstructArgs : Construct(c)
    \/ \E r \in Refs : AddRoi(r)
    \/ CapNext

\* a script iterating over a video file, sound or damaged
SpecRead == InitRead /\ [][NextRead]_vars

\* vertices and centers in and around the frame, and the regions a script
\* builds from them: rectangles from two vertices in either order, circles
\* of radius 0 to 2
Corners == {<<0 - 1, 1>>, <<0, 0>>, <<1, 2>>}
Centers == {<<1, 1>>, <<0, 0 - 1>>}
Radii == 0..2
Shapes ==
    {[kind |-> "RectRoi", a |-> v1, b |-> v2, r |-> 0, delta_ig |-> 0] :
        v1 \in Corners, v2 \in Corners}
    \cup {[kind |-> "CircRoi", a |-> c, b |-> c, r |-> r, delta_ig |-> 0] :
        c \in Centers, r \in Radii}

\* the points a script asks a region about: its two vertices, its center,
\* and the points next to its bounding box's far and near edges
ProbesOf(roi) ==
    {roi.vertex1, roi.vertex2, center(roi),
     <<end_x(roi), st_y(roi)>>, <<st_x(roi), end_y(roi)>>,
     <<st_x(roi) - 1, end_y(roi) - 1>>}

\* roi.contains(point) on a region of this run
Contains(r, point) ==
    /\ r \in Own
    /\ op' = [name |-> "contains", roi |-> r]
    /\ events' = <<[e |-> "contains", roi |-> r, point |-> point]>>
    /\ result' = IF contains(regions[r], point) THEN "True" ELSE "False"
    /\ UNCHANGED <<playVars, brightVars, threadVars, capclass, base, video, job, _next_id, regions, capVars,
                   guiVars, heard>>

InitShape == Start(0) /\ capclass = "RoiCap"

NextShape ==
    \/ \E c \in Shapes : Construct(c)
    \/ \E r \in Refs : \E point \in ProbesOf(regions[r]) : Contains(r, point)

\* a script that builds regions and asks them which points they contain
SpecShape == InitShape /\ [][NextShape]_vars

\* rectangles that sample, lying in the frame, across its border or
\* beyond it
FrameCorners == Corners \cup {<<frame_width, frame_height>>}
RectShapes ==
    {[kind |-> "MeanRectRoi", a |-> v1, b |-> v2, r |-> 0, delta_ig |-> 0] :
        v1 \in FrameCorners, v2 \in FrameCorners}

InitRect == Start(0) /\ capclass = "RoiCap"

NextRect ==
    \/ \E c \in RectShapes : Len(regions) = base /\ Construct(c)
    \/ \E r \in Refs : AddRoi(r)
    \/ CapNext

\* a script that samples a video through one rectangle
SpecRect == InitRect /\ [][NextRect]_vars

InitFile == Start(0) /\ capclass = "RoiCap"

NextFile ==
    \/ \E c \in ConstructArgs : Len(regions) = base /\ Construct(c)
    \/ \E r \in Refs : AddRoi(r)
    \/ CapNext
    \/ \E r \in Refs : SaveRoi(r)
    \/ \E i \in 1..MaxNew : LoadRoi(i)

\* a script that samples a video through one region, saves the region to a
\* csv file and loads the file again
SpecFile == InitFile /\ [][NextFile]_vars

InitExport == Init /\ capclass = "RoiVideo"

NextExport ==
    \/ \E c \in PlanClicks : rclick_add_roi(c)
    \/ \E chosen \in Choices(active_box) : cb_finish_rois(chosen, FALSE)
    \/ \E sel \in Selections(finished_box),
          yes, named, written, del_exported \in BOOLEAN :
          cb_export(sel, yes, named, written, del_exported)

\* the planner on a paused video: regions are added, finished and exported,
\* with every answer the user and the file system may give
SpecExport == InitExport /\ [][NextExport]_vars

InitBright == Init /\ capclass = "RoiVideo"

NextBright ==
    \/ \E c \in PlanClicks : rclick_add_roi(c)
    \/ \E frame \in BarFrames : set_position(frame)
    \/ \E increment \in {brightness_increment, 0 - brightness_increment} :
          brightness_adjust(increment)
    \/ brightness_reset

\* the planner on a paused video: regions are added, the user moves through
\* the video and turns the brightness up and down
SpecBright == InitBright /\ [][NextBright]_vars

\* right clicks near the frame's border with the integers the radius field
\* (TracedInt, min_value -1000) accepts, a negative one among them
EdgeRadii == {0 - 1, 0, 1}
EdgeClicks ==
    {[rtype |-> "circular", x |-> x, y |-> y, width |-> <<>>, height |-> <<>>,
      radius |-> <<r>>] : x \in 0..(frame_width - 1), y \in {0, 1},
                         r \in EdgeRadii}

InitEdge == Init /\ capclass = "RoiVideo"

NextEdge == \E c \in EdgeClicks : rclick_add_roi(c)

\* the planner on a paused video: circular regions are added by right clicks
SpecEdge == InitEdge /\ [][NextEdge]_vars

\* ================================================================= claims
\* C1: after any sequence of add_roi and delete_roi calls the mapping rois
\* never holds more than _max_rois entries
C1_RoisWithinCapacity == Cardinality(DOMAIN rois) <= _max_rois

\* an add_roi call has just filled the mapping up to its capacity
C1_Witness ==
    /\ op.name = "add_roi"
    /\ result = "ok"
    /\ Cardinality(DOMAIN rois) = _max_rois

\* C2: an add_roi call made while the mapping holds _max_rois entries raises
\* ValueError and changes nothing: the mapping keeps its entries, no region
\* that existed is touched, and the region handed in, unless an earlier call
\* registered it, has no back-reference and no starting timestamps
C2_RejectedAddChangesNothing ==
    [][(Cardinality(DOMAIN rois) = _max_rois /\ op'.name = "add_roi")
        => /\ result' = "ValueError"
           /\ rois' = rois
           /\ \A r \in DOMAIN regions : regions'[r] = regions[r]
           /\ LET roi == regions'[op'.roi]
              IN  (op'.roi \notin DOMAIN regions \/ regions[op'.roi].cap = None)
                    => /\ roi.cap = None
                       /\ ~HasAttr(roi.start_pos_msec)
                       /\ ~HasAttr(roi.start_pos_frames)]_vars

\* the planner has just had a fresh region rejected by a full capture
C2_Witness ==
    /\ capclass = "RoiVideo"
    /\ op.name = "add_roi"
    /\ result = "ValueError"
    /\ Cardinality(DOMAIN rois) = _max_rois
    /\ regions[op.roi].cap = None

\* number of notified() calls the last operation made on region r
NotifiedCalls(r) ==
    Cardinality({i \in DOMAIN events :
                    events[i].e = "notified" /\ events[i].roi = r})

\* C3: within a RoiCap.next() call every registered region has been notified
\* before any region is drawn: no draw event precedes a notified event
C3_AllNotifiedBeforeAnyDraw ==
    (capclass = "RoiCap" /\ op.name = "next" /\ result = "ok")
        => /\ \A i, j \in DOMAIN events :
                (events[i].e = "draw" /\ events[j].e = "notified") => j < i
           /\ \A r \in Registered : NotifiedCalls(r) >= 1

\* a tick of a RoiCap that notified and drew two regions
C3_Witness ==
    /\ capclass = "RoiCap"
    /\ op.name = "next"
    /\ result = "ok"
    /\ Cardinality(Registered) = 2
    /\ Len(events) = 4
    /\ events[2].e = "notified"
    /\ events[3].e = "draw"

\* C4 (as stated): every next() call that returns a frame, on a RoiCap and
\* on a RoiVideo alike, calls notified() exactly once on each registered
\* region
C4_EveryNextNotifiesEachOnce ==
    (op.name = "next" /\ result = "ok")
        => \A r \in Registered : NotifiedCalls(r) = 1

\* C4 (amended): a RoiCap.next() call that returns a frame calls notified()
\* exactly once on each registered region; a RoiVideo.next() call only draws
\* the active regions and notifies none
C4_RoiCapNotifiesEachOnceRoiVideoNone ==
    (op.name = "next" /\ result = "ok")
        => \A r \in Registered :
              NotifiedCalls(r) = IF capclass = "RoiCap" THEN 1 ELSE 0

\* a RoiCap tick on which a registered, hearing region took a sample
C4_Witness ==
    /\ capclass = "RoiCap"
    /\ op.name = "next"
    /\ result = "ok"
    /\ \E r \in Registered :
          /\ NotifiedCalls(r) = 1
          /\ regions[r].collected # <<>>
          /\ regions[r].collected[Len(regions[r].collected)].pos_frames
                = pos_frames

\* a RoiCap.next() call that returns a frame is being made
Tick == capclass = "RoiCap" /\ op'.name = "next" /\ result' = "ok"

\* the regions that collect mean colours and hear the notification of a tick
Sampling ==
    {r \in Registered : regions[r].kind \in MeanKinds /\ ~regions[r].deaf}

\* the mean colour of frame number p inside region r
ColourAt(r, p) ==
    MeanColor(regions[r], regions[r].kind = "MeanCircRoi", FrameAt(video, p))

\* two colours are less than d apart in each of the three channels
CloserThan(c1, c2, d) ==
    \A ch \in {"blue", "green", "red"} :
        /\ c1[ch][2] > 0
        /\ c2[ch][2] > 0
        /\ Abs(c1[ch][1] * c2[ch][2] - c2[ch][1] * c1[ch][2])
              < d * c1[ch][2] * c2[ch][2]

Last(seq) == seq[Len(seq)]

\* C5: one notification of a hearing Mean region appends nothing iff
\* collected is non-empty and the new mean colour is less than delta_ig away
\* from the last collected colour in every channel; otherwise it appends
\* exactly one record with the capture's pos_frames, pos_msec and the colour
C5_SampleUnlessCloseToLastCollected ==
    [][Tick => \A r \in Sampling :
        LET roi == regions[r]
            col == ColourAt(r, pos_frames')
            rec == [pos_frames |-> pos_frames',
                    pos_msec |-> PosMsec(pos_frames'), color |-> col]
        IN  IF /\ roi.collected # <<>>
               /\ CloserThan(col, Last(roi.collected).color, roi.delta_ig)
            THEN regions'[r].collected = roi.collected
            ELSE regions'[r].collected = Append(roi.collected, rec)]_vars

\* a tick on which one region dropped a colour close to its last sample and
\* another region appended a second sample
C5_Witness ==
    /\ capclass = "RoiCap"
    /\ op.name = "next"
    /\ \E r1, r2 \in heard :
          /\ regions[r1].delta_ig > 0
          /\ regions[r1].collected # <<>>
          /\ Last(regions[r1].collected).pos_frames < pos_frames
          /\ Len(regions[r2].collected) >= 2
          /\ Last(regions[r2].collected).pos_frames = pos_frames

\* C6 (as stated): whenever two consecutive frames differ by less than
\* delta_ig in every channel inside a region that hears both, the later frame
\* yields no sample
C6_CloseConsecutiveFramesYieldNoSample ==
    [][(Tick /\ pos_frames >= 1) => \A r \in Sampling \cap heard :
        CloserThan(ColourAt(r, pos_frames'), ColourAt(r, pos_frames),
                   regions[r].delta_ig)
            => regions'[r].collected = regions[r].collected]_vars

\* C6 (amended): a frame whose mean colour differs by less than delta_ig in
\* every channel from the colour of the last collected sample yields no
\* sample; the colour of the frame before it does not enter the test
C6_CloseToLastCollectedYieldsNoSample ==
    [][Tick => \A r \in Sampling :
        (/\ regions[r].collected # <<>>
         /\ CloserThan(ColourAt(r, pos_frames'),
                       Last(regions[r].collected).color, regions[r].delta_ig))
            => regions'[r].collected = regions[r].collected]_vars

\* of two consecutive frames a region heard, the earlier was sampled and the
\* later was dropped
C6_Witness ==
    /\ capclass = "RoiCap"
    /\ op.name = "next"
    /\ \E r \in heard :
          /\ regions[r].delta_ig > 0
          /\ Len(regions[r].collected) = 1
          /\ Last(regions[r].collected).pos_frames = pos_frames - 1

\* C7: with delta_ig = 0 and deaf false every notification appends exactly
\* one sample, also when the colour is the one sampled last
C7_ZeroDeltaAlwaysSamples ==
    [][Tick => \A r \in Sampling :
        regions[r].delta_ig = 0
            => Len(regions'[r].collected) = Len(regions[r].collected) + 1]_vars

\* a region with delta_ig = 0 sampled the same colour on consecutive frames
C7_Witness ==
    /\ capclass = "RoiCap"
    /\ op.name = "next"
    /\ \E r \in heard :
          LET c == regions[r].collected
          IN  /\ regions[r].delta_ig = 0
              /\ Len(c) >= 2
              /\ c[Len(c)].color = c[Len(c) - 1].color
              /\ c[Len(c)].pos_frames = c[Len(c) - 1].pos_frames + 1

\* C8: while a region is deaf, next() and notified() leave its collected
\* unchanged, it stays in the mapping, and every tick still draws it, with
\* passive_color
C8_DeafKeepsSamplesAndIsDrawnPassive ==
    [][Tick => \A r \in Registered :
        regions[r].deaf
            => /\ regions'[r].collected = regions[r].collected
               /\ notified(regions[r], FrameAt(video, pos_frames'),
                           pos_frames') = regions[r]
               /\ r \in {rois'[k] : k \in DOMAIN rois'}
               /\ r \in latest_frame'[1].drawn
               /\ \E i \in DOMAIN events' :
                     events'[i] = [e |-> "draw", roi |-> r,
                                   color |-> "passive_color"]]_vars

\* a region that sampled, then went deaf, was drawn by a tick it did not hear
C8_Witness ==
    /\ capclass = "RoiCap"
    /\ op.name = "next"
    /\ result = "ok"
    /\ \E r \in Registered :
          /\ regions[r].deaf
          /\ regions[r].collected # <<>>
          /\ Last(regions[r].collected).pos_frames < pos_frames
          /\ r \in latest_frame[1].drawn

\* C9: regions constructed one after another get pairwise distinct ids that
\* increase in creation order, each the previous one plus 1
C9_IdsIncreaseByOne ==
    /\ \A r \in 2..Len(regions) : regions[r]._id = regions[r - 1]._id + 1
    /\ \A r1, r2 \in Refs : r1 # r2 => regions[r1]._id # regions[r2]._id

\* MaxNew regions of different classes have been constructed
C9_Witness ==
    /\ Len(regions) = MaxNew
    /\ regions[1].kind # regions[2].kind
    /\ regions[2]._id = regions[1]._id + 1

FinishOps == {"finish", "finish, swap on"}
ExportOps == {"export", "export, delete on"}

\* the registered regions without an end timestamp (the active ones)
ActiveRegistered ==
    {r \in Registered : ~HasAttr(regions[r].end_pos_frames)}

\* positions in events of the draw() calls
DrawCalls == {i \in DOMAIN events : events[i].e = "draw"}

\* the planner has just shown a frame: a tick, or the redraw after a region
\* was added or finished
Redrawn ==
    /\ capclass = "RoiVideo"
    /\ op.name \in {"next", "add_roi"} \cup FinishOps
    /\ result = "ok"

\* C12: on every tick and on every redraw of the planner, draw() is called
\* once on each registered region without an end timestamp and on no other
\* region, and the frame shown carries exactly these regions
C12_DrawnAreTheActiveRegistered ==
    Redrawn =>
        /\ {events[i].roi : i \in DrawCalls} = ActiveRegistered
        /\ Cardinality(DrawCalls) = Cardinality(ActiveRegistered)
        /\ latest_frame[1].drawn = ActiveRegistered

\* a tick with one finished and one active region registered
C12_Witness ==
    /\ Redrawn
    /\ op.name = "next"
    /\ ActiveRegistered # {}
    /\ Registered \ ActiveRegistered # {}

\* the four timestamps of a region
Stamps(roi) ==
    <<roi.start_pos_msec, roi.start_pos_frames,
      roi.end_pos_msec, roi.end_pos_frames>>

C15_FinishSetsEndAndSwapsPairs ==
    [][op'.name \in FinishOps =>
          \A r \in DOMAIN regions :
             regions'[r] # regions[r] =>
                LET s == Val(regions[r].start_pos_frames)
                    e == pos_frames
                    swap == op'.name = "finish, swap on"
                IN  /\ regions[r].start_pos_msec = <<PosMsec(s)>>
                    /\ Stamps(regions'[r]) =
                          IF swap /\ e < s
                          THEN <<<<PosMsec(e)>>, <<e>>, <<PosMsec(s)>>, <<s>>>>
                          ELSE <<<<PosMsec(s)>>, <<s>>, <<PosMsec(e)>>, <<e>>>>
                    /\ swap => Val(regions'[r].start_pos_frames)
                                  <= Val(regions'[r].end_pos_frames)
                    /\ ~swap => regions'[r].start_pos_frames = <<s>>]_vars

\* two regions registered at a later position than the one they were
\* finished at: one with the swap option set, so that its timestamps were
\* exchanged, one without
C15_Witness ==
    /\ op.name = "finish, swap on"
    /\ \E r \in Registered :
          /\ HasAttr(regions[r].end_pos_frames)
          /\ Val(regions[r].start_pos_frames) = pos_frames
          /\ Val(regions[r].end_pos_frames) > pos_frames
    /\ \E r \in Registered :
          /\ HasAttr(regions[r].end_pos_frames)
          /\ Val(regions[r].start_pos_frames)
                > Val(regions[r].end_pos_frames)

\* C14: once a region has an end timestamp, no later next() appends a
\* sample to it, even while it is still registered: a tick neither calls
\* notified() on such a region nor changes its collected samples
C14_FinishedRegionNeverSampledByNext ==
    [][op'.name = "next" =>
          \A r \in DOMAIN regions :
             HasAttr(regions[r].end_pos_frames) =>
                /\ regions'[r].collected = regions[r].collected
                /\ \A i \in DOMAIN events' :
                      ~(events'[i].e = "notified" /\ events'[i].roi = r)]_vars

\* the capture advanced by a frame while a finished region was registered
C14_Witness ==
    /\ op.name = "next"
    /\ result = "ok"
    /\ \E r \in Registered :
          /\ HasAttr(regions[r].end_pos_frames)
          /\ Val(regions[r].end_pos_frames) < pos_frames

\* C20: at the end of the source next() raises StopIteration and does
\* nothing else: no region is notified or drawn, no collected list grows,
\* the mapping and the position stay, and latest_frame is still the last
\* frame that was read
C20_StopIterationChangesNothing ==
    [][(op'.name = "next" /\ result' = "StopIteration") =>
          /\ events' = <<>>
          /\ heard' = heard
          /\ regions' = regions
          /\ rois' = rois
          /\ pos_frames' = pos_frames
          /\ latest_frame' = latest_frame
          /\ latest_frame'[1].img = FrameAt(video, frame_count)]_vars

\* a script's next() found the source exhausted while a region that samples
\* every frame was registered
C20_Witness ==
    /\ capclass = "RoiCap"
    /\ op.name = "next"
    /\ result = "StopIteration"
    /\ \E r \in Registered :
          /\ ~regions[r].deaf
          /\ regions[r].kind \in MeanKinds
          /\ Len(regions[r].collected) = frame_count

\* add_roi has just returned without raising, for the region op.roi
Added == op.name = "add_roi" /\ result = "ok"

\* what C16 says of every class: the region is in the mapping under its id,
\* refers back to the capture and has no end timestamp
RegisteredActive(r) ==
    /\ regions[r]._id \in DOMAIN rois
    /\ rois[regions[r]._id] = r
    /\ regions[r].cap = "cap"
    /\ regions[r].end_pos_msec = <<>>
    /\ regions[r].end_pos_frames = <<>>

\* the starting timestamps of region r are the capture's position
StartedNow(r) ==
    /\ regions[r].start_pos_frames = <<pos_frames>>
    /\ regions[r].start_pos_msec = <<PosMsec(pos_frames)>>

\* C16 as stated: after every successful add_roi the region is in the
\* mapping under its id, its cap is the capture, its starting timestamps
\* equal the capture's position at the call and it has no end timestamp
C16_AddedIsRegisteredStartedActive ==
    Added => RegisteredActive(op.roi) /\ StartedNow(op.roi)

\* C16 (amended): after every successful add_roi the region is in the
\* mapping under its id, its cap is the capture and it has no end
\* timestamp; the planner's RoiVideo.add_roi also sets the starting
\* timestamps to the capture's position, RoiCap.add_roi sets none
C16_AddedIsRegisteredAndStartedByRoiVideoOnly ==
    Added =>
        /\ RegisteredActive(op.roi)
        /\ capclass = "RoiVideo" => StartedNow(op.roi)
        /\ capclass = "RoiCap" =>
              /\ regions[op.roi].start_pos_frames = <<>>
              /\ regions[op.roi].start_pos_msec = <<>>

\* the planner registered a region after the video had advanced
C16_Witness ==
    /\ Added
    /\ capclass = "RoiVideo"
    /\ pos_frames > 1
    /\ StartedNow(op.roi)

\* an add_roi call has just raised the capacity error
Rejected == op.name = "add_roi" /\ result = "ValueError"

\* C11 as stated: add_roi raises the capacity error only when the number of
\* active regions (registered, without an end timestamp) has reached the
\* maximum; finished regions do not count
C11_RejectedOnlyWhenActiveAtMaximum ==
    Rejected => Cardinality(ActiveRegistered) >= _max_rois

\* C11 (amended): add_roi raises the capacity error exactly when the
\* mapping already holds _max_rois regions, finished ones counted like
\* active ones
C11_RejectedWhenRegisteredAtMaximum ==
    [][op'.name = "add_roi" =>
          (result' = "ValueError" <=> Cardinality(DOMAIN rois) >= _max_rois)]_vars

\* the planner refused a region although fewer than _max_rois regions were
\* active, a finished one taking up the room
C11_Witness ==
    /\ Rejected
    /\ Cardinality(DOMAIN rois) = _max_rois
    /\ Cardinality(ActiveRegistered) < _max_rois

\* all notified() calls of a sequence of calls come before its draw() calls
NotifiedBeforeDrawn(calls) ==
    \A i, j \in DOMAIN calls :
        (calls[i].e = "draw" /\ calls[j].e = "notified") => j < i

\* C19: no region ever computes a sample from a frame on which some region
\* has already been drawn: when next() makes a region sample the frame just
\* read, every notified() precedes every draw(), and when a region samples
\* the frame at hand outside next() (the roi.notified() that get_roidata
\* issues after add_roi), no region has been drawn on that frame
C19_SampledFrameNeverDrawnOn ==
    [][\A r \in DOMAIN regions :
          Len(regions'[r].collected) > Len(regions[r].collected) =>
             IF op'.name = "next"
             THEN NotifiedBeforeDrawn(events')
             ELSE latest_frame[1].drawn = {}]_vars

\* seq1 is a prefix of seq2
IsPrefix(seq1, seq2) ==
    /\ Len(seq1) <= Len(seq2)
    /\ \A i \in DOMAIN seq1 : seq1[i] = seq2[i]

\* C18: a region's collected is append-only: whatever the operation (a
\* construction, add_roi, next, a notification by hand, save_roi/to_file,
\* delete_roi, the planner's finish and export), collected before it is a
\* prefix of collected after it, and one notification adds at most one
\* element
C18_CollectedIsAppendOnly ==
    [][\A r \in DOMAIN regions :
          /\ IsPrefix(regions[r].collected, regions'[r].collected)
          /\ Len(regions'[r].collected) <= Len(regions[r].collected) + 1]_vars

\* get_roidata has returned: a region was sampled by hand, by next() and,
\* after its samples had been saved, once more for the last screenshot
C18_Witness ==
    /\ job.pc = "done"
    /\ \E i \in DOMAIN job.saved :
          /\ job.saved[i].rows >= 2
          /\ Len(regions[job.saved[i].roi].collected) > job.saved[i].rows

FailedRead == op.name = "next" /\ result # "ok" /\ pos_frames < frame_count

\* C21: the frame source reports the end of the stream with an outcome
\* different from the one it reports for a failed read: next() does not
\* raise StopIteration, its end-of-stream outcome, when a read fails before
\* the end of the stream
C21_FailedReadToldApartFromEndOfStream ==
    FailedRead => result # "StopIteration"

\* the whole bounding box of region r lies inside the frame
BoxInFrame(r) ==
    /\ 0 <= Min(regions[r].vertex1[1], regions[r].vertex2[1])
    /\ 0 <= Min(regions[r].vertex1[2], regions[r].vertex2[2])
    /\ Max(regions[r].vertex1[1], regions[r].vertex2[1]) < frame_width
    /\ Max(regions[r].vertex1[2], regions[r].vertex2[2]) < frame_height

\* C22: every circular region the planner registers has its whole bounding
\* box inside the frame, for every radius the radius field accepts; a click
\* refused with ValueError constructs no region, consumes no id and
\* registers nothing
C22_RegisteredCirclesLieInsideFrame ==
    /\ \A r \in Registered :
          regions[r].kind = "DummyCircRoi" => BoxInFrame(r)
    /\ Len(regions) = _next_id - 1
    /\ Registered = Refs

\* the points of the plane the containment claims are checked on: the frame
\* and a margin of three pixels around it
GridPoints ==
    ((0 - 3)..(frame_width + 2)) \X ((0 - 3)..(frame_height + 2))

\* st <= coordinate < end on both axes, st the smaller and end the larger
\* vertex coordinate plus one
InBox(roi, point) ==
    /\ Min(roi.vertex1[1], roi.vertex2[1]) <= point[1]
    /\ point[1] < Max(roi.vertex1[1], roi.vertex2[1]) + 1
    /\ Min(roi.vertex1[2], roi.vertex2[2]) <= point[2]
    /\ point[2] < Max(roi.vertex1[2], roi.vertex2[2]) + 1

Rects == {r \in Refs : regions[r].kind = "RectRoi"}
Circs == {r \in Refs : regions[r].kind = "CircRoi"}

\* C24: a RectRoi built from integer vertices in either order contains
\* (x, y) exactly when st_x <= x < end_x and st_y <= y < end_y; it contains
\* both of its vertices; RectRoi(v1, v2) and RectRoi(v2, v1) contain the
\* same points
C24_RectContainsItsHalfOpenBox ==
    /\ \A r \in Rects :
          /\ \A point \in GridPoints :
                contains(regions[r], point) <=> InBox(regions[r], point)
          /\ contains(regions[r], regions[r].vertex1)
          /\ contains(regions[r], regions[r].vertex2)
    /\ \A r1 \in Rects, r2 \in Rects :
          (/\ regions[r1].vertex1 = regions[r2].vertex2
           /\ regions[r1].vertex2 = regions[r2].vertex1)
          => \A point \in GridPoints :
                contains(regions[r1], point) <=> contains(regions[r2], point)
    /\ (op.name = "contains" /\ op.roi \in Rects)
          => ((result = "True") <=> InBox(regions[op.roi], events[1].point))

\* a rectangle given by its far vertex first was asked about that vertex
\* and answered yes, its mirror image RectRoi(v2, v1) existing too
C24_Witness ==
    /\ op.name = "contains"
    /\ op.roi \in Rects
    /\ regions[op.roi].vertex1[1] > regions[op.roi].vertex2[1]
    /\ events[1].point = regions[op.roi].vertex1
    /\ result = "True"
    /\ \E r2 \in Rects :
          /\ regions[r2].vertex1 = regions[op.roi].vertex2
          /\ regions[r2].vertex2 = regions[op.roi].vertex1

\* squared distance of pixel (x, y) of the (2r+1) x (2r+1) box from the
\* box's middle pixel (r, r) is at most r squared
InDisc(rad, x, y) == (x - rad) * (x - rad) + (y - rad) * (y - rad) <= rad * rad

\* C25: for every CircRoi with an integer center and radius r >= 0 and every
\* pixel (x, y) of its (2r+1) x (2r+1) bounding box, mask[y][x] equals
\* contains((st_x + x, st_y + y)): the pixel's squared distance from the
\* center is at most r squared
C25_MaskAgreesWithContains ==
    /\ \A r \in Circs :
          LET roi == regions[r]
              rad == roi.radius
              mask == compute_mask(roi)
          IN  /\ DOMAIN mask = 0..(2 * rad)
              /\ \A y \in 0..(2 * rad) :
                    /\ DOMAIN mask[y] = 0..(2 * rad)
                    /\ \A x \in 0..(2 * rad) :
                          /\ mask[y][x] = InDisc(rad, x, y)
                          /\ mask[y][x] = contains(roi,
                                <<roi.vertex1[1] + x, roi.vertex1[2] + y>>)
    /\ (op.name = "contains" /\ op.roi \in Circs
          /\ InBox(regions[op.roi], events[1].point))
          => ((result = "True") <=>
                compute_mask(regions[op.roi])
                    [events[1].point[2] - regions[op.roi].vertex1[2]]
                    [events[1].point[1] - regions[op.roi].vertex1[1]])

\* a circle of radius 2 was asked about the corner of its bounding box and
\* answered no
C25_Witness ==
    /\ op.name = "contains"
    /\ op.roi \in Circs
    /\ regions[op.roi].radius = 2
    /\ events[1].point = regions[op.roi].vertex1
    /\ result = "False"

\* the coordinates of [s, e) that lie on an axis of length n, ascending
Clip(s, e, n) ==
    [i \in 1..Max(Min(e, n) - Max(s, 0), 0) |-> Max(s, 0) + i - 1]

\* the intersection of a region's bounding box with the frame, as rows and
\* columns
BoxInsideFrame(roi) ==
    [ys |-> Clip(Min(roi.vertex1[2], roi.vertex2[2]),
                 Max(roi.vertex1[2], roi.vertex2[2]) + 1, frame_height),
     xs |-> Clip(Min(roi.vertex1[1], roi.vertex2[1]),
                 Max(roi.vertex1[1], roi.vertex2[1]) + 1, frame_width)]

\* per-channel means of frame k over the pixels of columns xs and rows ys
MeanOver(k, xs, ys) ==
    LET pts == {<<xs[j], ys[i]>> : <<i, j>> \in (DOMAIN ys) \X (DOMAIN xs)}
    IN  [ch \in {"blue", "green", "red"} |->
            Rat(SumChannel(k, ch, pts), Cardinality(pts))]

\* C23: for a rectangular region lying partly outside the frame, negative
\* start coordinates included, get_rect returns exactly the pixels of the
\* intersection of the bounding box with the frame and raises nothing; the
\* sample a next() takes is the mean over those pixels
C23_GetRectIsBoxClippedToFrame ==
    \A r \in Registered :
        (latest_frame # <<>> /\ regions[r].kind = "MeanRectRoi")
        => /\ get_rect(regions[r]) = BoxInsideFrame(regions[r])
           /\ (op.name = "next" /\ result = "ok")
              => LET box == BoxInsideFrame(regions[r])
                     rows == regions[r].collected
                 IN  /\ rows # <<>>
                     /\ rows[Len(rows)].color
                          = MeanOver(latest_frame[1].img, box.xs, box.ys)

MetaKeys ==
    <<"ROI_ID", "ROI_TYPE", "ROI_DESCRIPTION", "DATE", "TIME", "CAP_FILE",
      "CAP_TITLE", "CAP_FPS">>

\* the text of a float in a csv field
Written(x) == <<"repr", x>>

\* lines from..Len(file) of a file are one row per sample of the first n
\* samples of roi.collected, in order
RowsFrom(file, from, roi, n) ==
    /\ Len(file) = from - 1 + n
    /\ n <= Len(roi.collected)
    /\ \A i \in 1..n :
          /\ file[from - 1 + i].tag = "row"
          /\ file[from - 1 + i].fields
               = <<Written(roi.collected[i].pos_frames),
                   Written(roi.collected[i].pos_msec),
                   Written(roi.collected[i].color.blue),
                   Written(roi.collected[i].color.green),
                   Written(roi.collected[i].color.red)>>

\* lines 1..m of a file are the first m KEY VALUE lines, and m >= 1
MetaLines(file, m) ==
    /\ m >= 1
    /\ m <= Len(file)
    /\ \A i \in 1..m : file[i].tag = MetaKeys[i] /\ Len(file[i].fields) = 1

IsColumnRow(line) ==
    /\ line.tag = "columns"
    /\ line.fields
         = <<"pos_frames", "pos_msec", "blue_avg", "green_avg", "red_avg">>

\* C26 as stated: the file written by to_file consists, in this order, of
\* the KEY VALUE lines, the sentinel line HEADER_END, the column-header row,
\* and one row per element of collected, in collected order
C26_SentinelThenColumnsThenRows ==
    \A i \in DOMAIN job.saved :
        LET file == job.saved[i].file
        IN  \E m \in 1..8 :
               /\ MetaLines(file, m)
               /\ Len(file) >= m + 2
               /\ file[m + 1].tag = "HEADER_END"
               /\ IsColumnRow(file[m + 2])
               /\ RowsFrom(file, m + 3, regions[job.saved[i].roi],
                           job.saved[i].rows)

\* C26, amended: the file written by to_file consists, in this order, of the
\* KEY VALUE lines (five, and three more of the capture when the region is
\* registered), an empty line, the column-header row, the sentinel line
\* HEADER_END that terminates the header, and one row per element of
\* collected, in collected order
C26_ColumnsThenSentinelThenRows ==
    \A i \in DOMAIN job.saved :
        LET file == job.saved[i].file
            roi == regions[job.saved[i].roi]
        IN  \E m \in {5, 8} :
               /\ roi.cap = None => m = 5
               /\ MetaLines(file, m)
               /\ Len(file) >= m + 3
               /\ file[m + 1].tag = "" /\ file[m + 1].fields = <<>>
               /\ IsColumnRow(file[m + 2])
               /\ file[m + 3].tag = "HEADER_END"
               /\ RowsFrom(file, m + 4, roi, job.saved[i].rows)

\* a registered region that holds two samples has been saved
C26_Witness ==
    /\ op.name = "save_roi"
    /\ \E i \in DOMAIN job.saved :
          /\ job.saved[i].roi = op.roi
          /\ job.saved[i].rows = 2
          /\ regions[op.roi].cap # None

\* the (pos_frames, pos_msec, blue, green, red) tuples of the first n
\* samples of a region
Tuples(roi, n) ==
    [i \in 1..n |-> <<roi.collected[i].pos_frames, roi.collected[i].pos_msec,
                      roi.collected[i].color.blue, roi.collected[i].color.green,
                      roi.collected[i].color.red>>]

\* C27: writing a region with n collected samples with save_roi and reading
\* the table back with load_roi (default header_rows) yields exactly the n
\* tuples of collected, in order, for a region registered with a capture
\* and for one that never was
C27_LoadedRowsAreTheSavedSamples ==
    op.name = "load_roi"
    => /\ result = "ok"
       /\ \E i \in DOMAIN job.saved :
             /\ job.saved[i].roi = op.roi
             /\ events[1].table = Tuples(regions[op.roi], job.saved[i].rows)

Has(seq, x) == \E i \in DOMAIN seq : seq[i] = x
HasEvent(seq, e) == \E i \in DOMAIN seq : seq[i].e = e

\* the regions the export wrote to the file
Exported(seq) == {seq[i].roi : i \in {j \in DOMAIN seq : seq[j].e = "exported"}}

\* C28: export with no finished region selected (the finished list is empty,
\* or the user declines "export all") raises nothing, writes no file,
\* removes no region from the mapping or the lists, and shows the user a
\* message
C28_ExportOfNothingShowsMessage ==
    [][(/\ op'.name \in ExportOps
        /\ finished_box = <<>> \/ HasEvent(events', "asked, no"))
       => /\ result' = "ok"
          /\ Exported(events') = {}
          /\ ~Has(tk_log', "exported")
          /\ UNCHANGED <<regions, rois, active_box, finished_box>>
          /\ \/ tk_log' # <<>>
             \/ HasEvent(events', "asked, no")]_vars

\* C29: when writing the export file fails with an I/O error, the error is
\* logged and no region is removed from the mapping or the lists, even with
\* "delete exported regions" on; when the write succeeds and the option is
\* on, exactly the exported regions are removed from the mapping and the
\* finished list; in every other case none is
C29_ExportDeletesOnlyAfterWrite ==
    [][op'.name \in ExportOps =>
         /\ HasEvent(events', "EnvironmentError")
            => /\ Has(tk_log', "error")
               /\ Exported(events') = {}
               /\ UNCHANGED <<regions, rois, active_box, finished_box>>
         /\ IF op'.name = "export, delete on" /\ Exported(events') # {}
            THEN LET gone == {regions[r]._id : r \in Exported(events')}
                 IN  /\ Exported(events') \subseteq Registered
                     /\ DOMAIN rois' = (DOMAIN rois) \ gone
                     /\ \A k \in DOMAIN rois' : rois'[k] = rois[k]
                     /\ Ids(finished_box') = Ids(finished_box) \ gone
                     /\ gone \subseteq Ids(finished_box)
                     /\ Len(finished_box') = Len(finished_box) - Cardinality(gone)
                     /\ \A r \in (DOMAIN regions) \ Exported(events') :
                           regions'[r] = regions[r]
                     /\ UNCHANGED active_box
            ELSE UNCHANGED <<regions, rois, active_box, finished_box>>]_vars

\* the write of the export file failed with "delete exported regions" on
\* and a finished region selected
C29_Witness ==
    /\ op.name = "export, delete on"
    /\ HasEvent(events, "EnvironmentError")
    /\ tk_log = <<"error">>
    /\ finished_box # <<>>

BrightnessOps == {"brightness_adjust", "brightness_reset"}

\* a pixel value after the offsets of seq were added to it one after the
\* other, each sum cut to 0..255
RECURSIVE Brightened(_, _)
Brightened(v, seq) ==
    IF seq = <<>> THEN v
    ELSE Brightened(Max(0, Min(v + Head(seq), 255)), Tail(seq))

\* the pixel (x, y) a frame value shows
Shown(frame, x, y) ==
    [ch \in {"blue", "green", "red"} |->
        Brightened(Pixel(frame.img, x, y)[ch], frame.adjusted)]

FramePoints == (0..(frame_width - 1)) \X (0..(frame_height - 1))

\* C30: changing the brightness offset (up, down, reset) alters no region's
\* collected samples and not the unmodified frame latest_frame_original;
\* the frame shown is rebuilt from a copy of the original with the current
\* offset applied once and the active regions drawn on it, so that with the
\* offset back at 0 it shows the original's pixels
C30_BrightnessRedrawsFromOriginal ==
    [][op'.name \in BrightnessOps =>
         /\ \A r \in DOMAIN regions : regions'[r] = regions[r]
         /\ latest_frame_original' = latest_frame_original
         /\ latest_frame_original'[1].adjusted = <<>>
         /\ latest_frame_original'[1].drawn = {}
         /\ latest_frame'[1].img = latest_frame_original[1].img
         /\ latest_frame'[1].adjusted = <<_brightness_offset'>>
         /\ latest_frame'[1].drawn
              = {r \in DOMAIN regions :
                    /\ \E k \in DOMAIN rois : rois[k] = r
                    /\ regions[r].end_pos_frames = <<>>}
         /\ _brightness_offset' = 0
            => \A pt \in FramePoints :
                  Shown(latest_frame'[1], pt[1], pt[2])
                    = Pixel(latest_frame_original[1].img, pt[1], pt[2])]_vars

\* the brightness buttons brought the offset back to 0 with an active region
\* drawn on the frame shown
C30_Witness ==
    /\ op.name = "brightness_adjust"
    /\ _brightness_offset = 0
    /\ latest_frame[1].drawn # {}
    /\ pos_frames > 1

\* C38: after any sequence of brightness_adjust(+10), brightness_adjust(-10)
\* and brightness_reset calls the stored brightness offset lies within
\* [-255, 255], and a reset leaves it at 0
C38_BrightnessOffsetStaysInRange ==
    /\ 0 - 255 <= _brightness_offset
    /\ _brightness_offset <= 255
    /\ op.name = "brightness_reset" => _brightness_offset = 0

\* the brightness down button was pressed until the offset was cut at -255
C38_Witness ==
    /\ op.name = "brightness_adjust"
    /\ _brightness_offset = 0 - 255

\* the region behind reference r sits in the mapping under its own id
C32_IsRegistered(r) ==
    /\ regions[r]._id \in DOMAIN rois
    /\ rois[regions[r]._id] = r

\* every key of the mapping is the id of the region it maps to
C32_KeysAreIds == \A k \in DOMAIN rois : regions[rois[k]]._id = k

\* C32: after any sequence of add_roi and delete_roi calls every key k of
\* the mapping maps to a region whose _id is k; add_roi on a region that is
\* registered already, below the capacity, leaves the mapping as it is, and
\* the re-registration at the end of get_roidata leaves one entry for each
\* region of roi_specs, the entries of the leftovers included
C32_KeysAreIdsAndRegisteringTwiceAddsNothing ==
    /\ C32_KeysAreIds
    /\ [][/\ C32_KeysAreIds'
          /\ ( /\ op'.name = "add_roi"
               /\ job.pc = "-"
               /\ C32_IsRegistered(op'.roi)
               /\ Cardinality(DOMAIN rois) < _max_rois )
             => result' = "ok" /\ rois' = rois
          /\ (job.pc = "tail" /\ job'.pc = "done")
             => /\ DOMAIN rois \subseteq DOMAIN rois'
                /\ Cardinality(DOMAIN rois') = Len(job.roi_specs)]_vars

\* get_roidata has registered every region again, among them one that was
\* still registered when the video ended (it dies after the last frame)
C32_Witness ==
    /\ job.pc = "done"
    /\ op.name = "next"
    /\ Cardinality(DOMAIN rois) = Len(job.roi_specs)
    /\ \E i \in DOMAIN job.roi_specs :
          /\ job.roi_specs[i].death = PosMsec(frame_count + 1)
          /\ C32_IsRegistered(job.roi_specs[i].roi)
          /\ \E j \in DOMAIN job.saved : job.saved[j].roi = job.roi_specs[i].roi

\* the region behind reference r still waits in the insertion queue
C36_Waiting(r) ==
    \E i \in DOMAIN job.insertion_order : job.insertion_order[i].roi = r

\* the result files written for the region behind reference r
C36_FilesOf(r) == {j \in DOMAIN job.saved : job.saved[j].roi = r}

C33_OneTickPending ==
    capclass = "RoiVideo" =>
       /\ Cardinality(after_pending) <= 1
       /\ (video # None /\ _rect = <<>>) => Cardinality(after_pending) = 1

\* a selection with the left button has just ended with a region added while
\* the video was playing: the player was unfrozen by _lrelease_add_roi
C33_Witness ==
    /\ op.name = "next"
    /\ tk_log = <<"started">>
    /\ _rect = <<>>
    /\ Cardinality(after_pending) = 1
    /\ _after_handle \in after_pending

\* the ids of the registered regions with (ended) or without an end timestamp
C34_RegisteredIds(ended) ==
    {k \in DOMAIN rois : HasAttr(regions[rois[k]].end_pos_frames) = ended}

\* C34: in the planner the ids of the lines of the active list are exactly
\* the ids of the registered regions without an end timestamp, those of the
\* finished list exactly the ids of the registered regions with one, and no
\* id stands in both lists or twice in one list
C34_ListsShowTheRegisteredRegions ==
    capclass = "RoiVideo" =>
       /\ \A k \in DOMAIN rois : regions[rois[k]]._id = k
       /\ {active_box[i] : i \in DOMAIN active_box} = C34_RegisteredIds(FALSE)
       /\ {finished_box[i] : i \in DOMAIN finished_box}
             = C34_RegisteredIds(TRUE)
       /\ \A i, j \in DOMAIN active_box :
             active_box[i] = active_box[j] => i = j
       /\ \A i, j \in DOMAIN finished_box :
             finished_box[i] = finished_box[j] => i = j
       /\ \A i \in DOMAIN active_box, j \in DOMAIN finished_box :
             active_box[i] # finished_box[j]

\* two regions were added and one of them has just been finished: one line
\* stands in each list
C34_Witness ==
    /\ tk_log = <<"finished">>
    /\ _next_id = 3
    /\ Len(active_box) = 1
    /\ Len(finished_box) = 1
    /\ Len(regions) = 2
    /\ regions[1]._id = 1
    /\ regions[2]._id = 2

\* a tick of the player while it plays
C35_PlayingTick == ~_paused /\ op'.name = "next"

C31_MainThreadMutatesOutsideTheTick ==
    (capclass = "GuiRoiCap" /\ op.name \in {"del_rois", "finish",
                                            "finish, swap on"})
    => LOCK # "runner" /\ RUNNER.pc # "draw"

\* C37: in the threaded planner the runner thread gives the lock back on
\* every path through its tick, so that a callback of the main thread that
\* waits for the lock gets it in the end
C37_WaitingCallbackGetsTheLock ==
    /\ [](RUNNER.pc \in {"acquire", "wait", "dead"} => LOCK # "runner")
    /\ (MAIN.pc = "blocked") ~> (MAIN.pc = "holding")

====
